---- MODULE Spec2Model ----
(***************************************************************************)
(* Model of the ossuary-pi network daemon: NetworkManager (the manager in  *)
(* src/src/netd/manager.py) and the NetworkService main loop                *)
(* (src/src/netd/service.py), together with the NetworkManager backend     *)
(* (the OS daemon reached through GI and nmcli) as the environment.        *)
(*                                                                         *)
(* The manager runs on one asyncio event loop.  A coroutine runs without   *)
(* interruption until it suspends (asyncio.sleep, an awaited callback that *)
(* suspends); the model keeps one program counter per task and lets a      *)
(* task step only while every other task is suspended.  The backend is a   *)
(* separate process and may change at any moment.                          *)
(*                                                                         *)
(* Time is counted in ticks of TickSeconds seconds; every sleep and every  *)
(* timeout is rounded up to whole ticks.  Spec lets time pass by arbitrary *)
(* amounts (the Elapse actions): it covers every configured duration and   *)
(* every arrival time of a request.  SpecTimed advances a clock (Tick)     *)
(* under the default configuration and lets a due task run before the     *)
(* clock advances.                                                         *)
(***************************************************************************)
EXTENDS Integers, Sequences, FiniteSets, TLC

VARIABLES
    timed,             \* the clock is modelled (SpecTimed) or time passes freely (Spec)
    role,              \* "service": netd/service.py owns the manager; "gateway": api/gateway.py
    hasWifi,           \* self.wifi_device is not None
    devState,          \* backend: NM.DeviceState of the wifi device
    active,            \* backend: ssid of the device's active connection, or "none"
    pendingAct,        \* backend: activation requested asynchronously, not yet started
    profiles,          \* backend: ssids of the stored wireless connection profiles
    marker,            \* /tmp/ossuary_ap_test_mode
    current_state,     \* self.current_state
    last_status,       \* self.last_status
    registered,        \* a state change callback has been added
    pc,                \* position of every task
    delay,             \* remaining ticks of the asyncio.sleep a task is in
    pollObs,           \* local `state` of a poll suspended inside a callback, or "none"
    conn,              \* per task: the connect_to_network call in progress
    waitLeft,          \* per task: ticks left in _wait_for_connection_state
    wfLeft,            \* ticks left of asyncio.wait_for in the reconnector
    apc,               \* per task: the start_access_point call in progress
    passTodo,          \* known networks the reconnector has still to try
    passCaller,        \* who runs _attempt_startup_connection: "init" or "loop"
    reconnect_attempt, \* service main loop local
    sinceLast,         \* current_time - last_reconnect_time of the main loop, in ticks
    discTicks,         \* history: ticks since current_state last changed, until the timer fires
    sawConnected,      \* history: a poll has observed CONNECTED while the armed timer slept
    timestamp,         \* backend: connection.timestamp of every profile, 0 when it has none
    tzFold,            \* host: the local clock was set back (end of DST) at FoldAt
    autoconnect,       \* backend: the profiles whose connection.autoconnect is true
    passLog,           \* history: what the running reconnection pass has done
    marker0,           \* history: the marker file the process found when it started
    autoBefore,        \* history: autoconnect before the operation under observation
    callHist,          \* the AP operation the caller runs, and the one it completed before
    tornDown,          \* history: the caller's running start_access_point took an active AP down
    observers,         \* number of callbacks added after the owner's one
    pollOld,           \* local `old_state` of a poll suspended inside a callback, or "none"
    pollIdx,           \* position in state_change_callbacks of the callback a poll awaits, or 0
    got,               \* history: per added callback, the arguments of its last invocation
    networks,          \* network_db: the row of table `networks` for one ssid
    dbLog,             \* history: the record_connection calls on that ssid
    fallback_timer,    \* self.fallback_timer: the task it refers to, or 0 for None
    timerTasks,        \* the _fallback_to_ap tasks created so far, by position
    pendingDel         \* backend: profile whose deletion was requested asynchronously, or "none"

vars == <<timed, role, hasWifi, devState, active, pendingAct, profiles, marker,
          current_state, last_status, registered, pc, delay, pollObs, conn,
          waitLeft, wfLeft, apc, passTodo, passCaller, reconnect_attempt,
          sinceLast, discTicks, sawConnected, timestamp, tzFold, autoconnect,
          passLog, marker0, autoBefore, callHist, tornDown, observers, pollOld,
          pollIdx, got, networks, dbLog, fallback_timer, timerTasks, pendingDel>>

backendVars == <<devState, active, pendingAct, profiles>>
loopVars == <<reconnect_attempt, sinceLast>>
histVars == <<discTicks, sawConnected>>
callVars == <<callHist, tornDown>>
envVars == <<timestamp, tzFold, autoconnect, marker0, autoBefore, callVars>>
extVars == <<envVars, passLog>>
notifyVars == <<observers, pollOld, pollIdx, got>>
sideVars == <<networks, dbLog, fallback_timer, timerTasks, pendingDel>>

----------------------------------------------------------------------------
\* Program constants (seconds, as in the source)

FallbackTimeout == 300
ConnectionTimeout == 30
StartupAttemptTimeout == 15
MainLoopSleep == 10
MonitorInterval == 5
WaitPollSleep == 1
GraceSleep == 2
AttemptPause == 2
ApSettleSleep == 5
BootSettleSleep == 5
StopSettleSleep == 3
ScanSleep == 5
DisconnectSleep == 2
ReconnectGap == 30
ReconnectPenalty == 120
MaxReconnectAttempts == 5

\* Model granularity: seconds per tick
TickSeconds == 5

Ticks(s) == (s + TickSeconds - 1) \div TickSeconds

\* asyncio.sleep(s): s seconds when the clock is modelled; otherwise the
\* task may be resumed at any later moment
SleepTicks(s) == IF timed THEN Ticks(s) ELSE 0

GapCap == Ticks(ReconnectGap) + 1

\* Tolerance, in seconds, for "about fallback_timeout after the disconnect"
FireTolerance == 300

\* discTicks once the fallback timer has invoked start_access_point for the
\* current disconnect: nothing is outstanding until the state changes again
Discharged == 0 - 1

\* The age of a disconnect is counted up to one tick past the tolerance
AgeCap == Ticks(FallbackTimeout) + Ticks(FireTolerance) + 1

----------------------------------------------------------------------------
\* Data

Ssids == {"HomeWifi", "Office"}
APSsid == "ossuary-setup"
Tasks == {"main", "monitor", "timer", "api"}

NetworkState == {"UNKNOWN", "DISCONNECTED", "CONNECTING", "CONNECTED",
                 "FAILED", "AP_MODE", "SCANNING"}

DeviceStates == {"DISCONNECTED", "PREPARE", "CONFIG", "IP_CONFIG",
                 "ACTIVATED", "FAILED"}

\* connection.timestamp of the stored profiles (last successful activation)
ProfileTimestamp(s) == IF s = "HomeWifi" THEN 2 ELSE IF s = "Office" THEN 1 ELSE 0

\* Largest connection.timestamp a profile starts with (0: never activated)
MaxStamp == 2

\* The last instant before the host's local clock is set back, and by how
\* much it is set back, in the unit of the timestamps
FoldAt == 1
DstShift == 2

\* Callbacks added to state_change_callbacks after the owner's one
MaxObservers == 2
MaxAttempts == 6
MaxTimerTasks == 3

\* A client network whose profile name contains "hotspot"
HotspotNamed == {"CafeHotspot"}

NoStatus == [state |-> "none", ssid |-> "null", interface |-> "null",
             signal_strength |-> "null", ap_active |-> FALSE]

NoConn == [ssid |-> "none", caller |-> "none", result |-> "none", waitEnd |-> "none"]
NoAp == [caller |-> "none", result |-> "none"]

\* The marker file: absent, not JSON (corrupt), not readable at all, or a
\* record {previous_ssid, timestamp, manual_activation}
NoMarker == [kind |-> "absent", previous_ssid |-> "null", manual_activation |-> FALSE]
CorruptMarker == [kind |-> "corrupt", previous_ssid |-> "null", manual_activation |-> FALSE]
UnreadableMarker == [kind |-> "unreadable", previous_ssid |-> "null", manual_activation |-> FALSE]
Markers == {NoMarker, CorruptMarker, UnreadableMarker} \cup
           [kind : {"valid"}, previous_ssid : Ssids \cup {"null"},
            manual_activation : BOOLEAN]

\* What is remembered of the calls of an added callback: the new_state of
\* the last call, whether its old_state was the new_state of the call before,
\* whether its status had the state new_state, and whether a poll has ended
\* without calling it
\* No row of table `networks` for the ssid
NoRow == [present |-> FALSE]

NoNote == [new |-> "none", chained |-> TRUE, fresh |-> TRUE, missed |-> FALSE]

NoPassLog == [tried |-> <<>>, known |-> {}, end |-> "none"]

\* A call of an AP operation: its name, its return value, whether the AP
\* was active when start or stop was called, the client network connected
\* when enable was called
NoCall == [op |-> "none", result |-> "none", apBefore |-> FALSE, connBefore |-> "none"]
NoCalls == [cur |-> NoCall, last |-> NoCall]

----------------------------------------------------------------------------
\* Program positions

SleepPcs == {"i_csleep", "c_wsleep", "c_fsleep", "a_settle", "p_pause",
             "ml_sleep", "mon_sleep", "t_sleep", "s_settle", "e_sleep", "sc_sleep"}
IdlePcs == {"idle", "api_idle", "g_done"}
PollSites == {"i_poll", "ml_ipoll", "ml_poll", "mon_poll", "c_wait", "a_poll", "s_poll",
              "g_poll"}
ConnPcs == {"c_begin", "c_wait", "c_chk", "c_wsleep", "c_fsleep", "c_ret"}
ApPcs == {"a_begin", "a_settle", "a_poll", "a_ret"}

\* A task that is not running: other tasks may be scheduled
Suspended(t) == pc[t] \in SleepPcs \cup IdlePcs \/ pollObs[t] # "none"

OthersSuspended(t) == \A u \in Tasks \ {t} : Suspended(u)

\* The operation of the orchestrator a task is executing
InConnect(t) == conn[t].ssid # "none" /\ pc[t] # "i_csleep"
InApStart(t) == apc[t].caller # "none"

----------------------------------------------------------------------------
\* Initial state: the process has been started, NetworkManager.__init__ has
\* run and initialize() has created the monitor task and is about to call
\* _cleanup_temporary_ap_mode.

\* The profile stores the model starts from: no, one or two known networks,
\* with or without a hotspot profile left by an earlier run
InitProfiles ==
    {k \cup a : k \in {{}, {"HomeWifi"}, {"HomeWifi", "Office"}}, a \in {{}, {APSsid}}}

\* The marker files the model starts from
InitMarkers ==
    {NoMarker,
     [kind |-> "valid", previous_ssid |-> "HomeWifi", manual_activation |-> TRUE]}

InitBackend ==
    /\ hasWifi \in BOOLEAN
    /\ profiles \in InitProfiles
    /\ pendingAct = "none"
    /\ \/ devState = "DISCONNECTED" /\ active = "none"
       \/ hasWifi /\ devState = "ACTIVATED" /\ active \in profiles

\* No database row yet (and the history of the record_connection calls: their
\* number, the failures in a row since the last success, the call of the
\* last success), no fallback task created yet, no deletion requested
InitSide ==
    /\ networks = NoRow
    /\ dbLog = [calls |-> 0, streak |-> 0, success_at |-> 0]
    /\ fallback_timer = 0
    /\ timerTasks = [i \in {} |-> "done"]
    /\ pendingDel = "none"

InitManager ==
    /\ current_state = "UNKNOWN"
    /\ last_status = NoStatus
    /\ registered = FALSE
    /\ pc = [t \in Tasks |->
               CASE t = "main" -> "i_cleanup"
                 [] t = "monitor" -> "mon_sleep"
                 [] t = "timer" -> "idle"
                 [] OTHER -> "api_idle"]
    /\ delay = [t \in Tasks |-> 0]
    /\ pollObs = [t \in Tasks |-> "none"]
    /\ pollOld = [t \in Tasks |-> "none"]
    /\ pollIdx = [t \in Tasks |-> 0]
    /\ observers = 0
    /\ got = [o \in 1 .. 0 |-> NoNote]
    /\ conn = [t \in Tasks |-> NoConn]
    /\ waitLeft = [t \in Tasks |-> 0]
    /\ wfLeft = 0
    /\ apc = [t \in Tasks |-> NoAp]
    /\ passTodo = <<>>
    /\ passCaller = "none"
    /\ reconnect_attempt = 0
    /\ sinceLast = GapCap
    /\ discTicks = 0
    /\ sawConnected = FALSE

\* Every stored profile has been activated before and auto-connects; the
\* host's clock has not been set back
InitPlain ==
    /\ timestamp = [s \in Ssids |-> ProfileTimestamp(s)]
    /\ tzFold = FALSE
    /\ autoconnect = {s \in profiles : s # APSsid}
    /\ autoBefore = autoconnect
    /\ marker0 = marker
    /\ passLog = NoPassLog
    /\ callHist = NoCalls
    /\ tornDown = FALSE

Init ==
    /\ timed = FALSE
    /\ InitSide
    /\ role \in {"service", "gateway"}
    /\ marker \in InitMarkers
    /\ InitBackend
    /\ InitManager
    /\ InitPlain

----------------------------------------------------------------------------
\* The backend (NetworkManager daemon and the radio)

\* The daemon starts an activation that was requested asynchronously
BackendBeginActivation ==
    /\ hasWifi
    /\ pendingAct # "none"
    /\ pendingAct' = "none"
    /\ IF pendingAct \in profiles
       THEN devState' = "PREPARE" /\ active' = pendingAct
       ELSE UNCHANGED <<devState, active>>
    /\ UNCHANGED profiles

\* An activation in progress moves on to its next stage
BackendProgress ==
    /\ devState \in {"PREPARE", "CONFIG", "IP_CONFIG"}
    /\ devState' = CASE devState = "PREPARE" -> "CONFIG"
                     [] devState = "CONFIG" -> "IP_CONFIG"
                     [] OTHER -> "ACTIVATED"
    /\ UNCHANGED <<active, pendingAct, profiles>>

\* An activation in progress fails (network out of range, wrong secret)
BackendFail ==
    /\ devState \in {"PREPARE", "CONFIG", "IP_CONFIG"}
    /\ devState' = "FAILED"
    /\ UNCHANGED <<active, pendingAct, profiles>>

\* A failed device returns to disconnected
BackendFailedSettles ==
    /\ devState = "FAILED"
    /\ devState' = "DISCONNECTED"
    /\ active' = "none"
    /\ UNCHANGED <<pendingAct, profiles>>

\* The active connection (client link or hotspot) goes down
BackendLinkLost ==
    /\ devState = "ACTIVATED"
    /\ devState' = "DISCONNECTED"
    /\ active' = "none"
    /\ UNCHANGED <<pendingAct, profiles>>

managerVars == <<histVars, extVars, timed, sideVars, role, hasWifi, marker, current_state, last_status, registered,
                 pc, delay, pollObs, notifyVars, conn, waitLeft, wfLeft, apc, passTodo,
                 passCaller, reconnect_attempt, sinceLast>>

Backend ==
    /\ (BackendBeginActivation \/ BackendProgress \/ BackendFail
          \/ BackendFailedSettles \/ BackendLinkLost)
    /\ UNCHANGED managerVars

----------------------------------------------------------------------------
\* StatePoller: _update_network_state

IsApConnection(s) == s = APSsid

ObservedState ==
    IF devState = "ACTIVATED" /\ active # "none"
    THEN IF IsApConnection(active) THEN "AP_MODE" ELSE "CONNECTED"
    ELSE IF devState = "PREPARE" \/ devState = "CONFIG" THEN "CONNECTING"
    ELSE IF devState = "FAILED" THEN "FAILED"
    ELSE "DISCONNECTED"

\* A status whose ap_active follows the stored hotspot profile instead of
\* the derived state (what StatusOf must differ from)
StatusOfByProfile(st) ==
    [state |-> st,
     ssid |-> IF st = "AP_MODE" THEN APSsid
              ELSE IF st = "CONNECTED" THEN active ELSE "null",
     interface |-> "wlan0",
     signal_strength |-> IF st = "CONNECTED" THEN "measured" ELSE "null",
     ap_active |-> (APSsid \in profiles)]

StatusOf(st) ==
    [state |-> st,
     ssid |-> IF st = "AP_MODE" THEN APSsid
              ELSE IF st = "CONNECTED" THEN active ELSE "null",
     interface |-> "wlan0",
     signal_strength |-> IF st = "CONNECTED" THEN "measured" ELSE "null",
     ap_active |-> (st = "AP_MODE")]

\* A wired-only status that leaves the signal strength unset (what
\* WiredOnlyStatus must differ from)
WiredOnlyWithoutSignal ==
    [state |-> "DISCONNECTED", ssid |-> "null", interface |-> "wired-only",
     signal_strength |-> "null", ap_active |-> FALSE]

\* The status of a host without a wireless device; its signal strength is
\* the number 0, every other status has None or a measured value
WiredOnlyStatus ==
    [state |-> "DISCONNECTED", ssid |-> "null", interface |-> "wired-only",
     signal_strength |-> "0", ap_active |-> FALSE]

\* The callbacks of api/gateway.py await a websocket broadcast; the callback
\* of netd/service.py only logs (its stop_access_point branch needs a status
\* with state CONNECTED and ap_active, which no poll produces).
CallbackSuspends == role = "gateway" /\ registered

\* self.fallback_timer is a task sleeping in _fallback_to_ap
TimerPending == pc["timer"] = "t_sleep"

\* History of the armed timer: a new timer or a cancellation forgets what
\* was observed, a poll that leaves the sleeping timer alone records CONNECTED
SawAfter(eff, st) ==
    IF eff # "keep" THEN FALSE
    ELSE sawConnected \/ (st = "CONNECTED" /\ TimerPending)

\* "Handle automatic fallback" of _update_network_state
TimerEffect(st) ==
    IF st = "DISCONNECTED" THEN "arm"
    ELSE IF st = "CONNECTED" THEN "cancel"
    ELSE "keep"

\* _start_fallback_timer (arm) and _cancel_fallback_timer (cancel) on the
\* per-task variables: a cancelled task is gone, a new one sleeps.
TimerPc(pcf, eff) ==
    IF eff = "arm" THEN [pcf EXCEPT !["timer"] = "t_sleep"]
    ELSE IF eff = "cancel" THEN [pcf EXCEPT !["timer"] = "idle"]
    ELSE pcf

TimerDelay(df, eff) ==
    IF eff = "arm" THEN [df EXCEPT !["timer"] = SleepTicks(FallbackTimeout)]
    ELSE IF eff = "cancel" THEN [df EXCEPT !["timer"] = 0]
    ELSE df

TimerReset(f, eff, none) ==
    IF eff = "keep" THEN f ELSE [f EXCEPT !["timer"] = none]

AfterPoll(p) ==
    CASE p = "i_poll" -> "p_begin"
      [] p = "ml_ipoll" -> "ml_ichk"
      [] p = "ml_poll" -> "ml_chk"
      [] p = "mon_poll" -> "mon_sleep"
      [] p = "c_wait" -> "c_chk"
      [] p = "s_poll" -> "s_ret"
      [] p = "g_poll" -> "api_idle"
      [] OTHER -> "a_ret"

AfterPollDelay(p) == IF p = "mon_poll" THEN SleepTicks(MonitorInterval) ELSE 0

\* state_change_callbacks: the owner's callback, once added, then the
\* callbacks added after it
OwnCallbacks == IF registered THEN 1 ELSE 0
NumCallbacks == OwnCallbacks + observers
IsOwner(i) == registered /\ i = 1
CallbackIndex(o) == OwnCallbacks + o

\* What a callback does when awaited.  The owner's callback is the one of
\* the service (returns at once) or of the gateway (suspends); an added
\* callback may return, raise or suspend.
MayComplete(i) == ~(i = 1 /\ CallbackSuspends)
MaySuspend(i) == ~(IsOwner(i) /\ role = "service")

\* The rest of a poll after the callbacks: fallback handling, then the caller goes on
FinishPoll(t, eff) ==
    /\ pc' = TimerPc([pc EXCEPT ![t] = AfterPoll(pc[t])], eff)
    /\ delay' = TimerDelay([delay EXCEPT ![t] = AfterPollDelay(pc[t])], eff)
    /\ apc' = TimerReset(apc, eff, NoAp)
    /\ pollObs' = TimerReset([pollObs EXCEPT ![t] = "none"], eff, "none")
    /\ pollOld' = TimerReset([pollOld EXCEPT ![t] = "none"], eff, "none")
    /\ pollIdx' = TimerReset([pollIdx EXCEPT ![t] = 0], eff, 0)

\* A task that is cancelled while its poll awaits a callback leaves the
\* loop over state_change_callbacks (CancelledError is no Exception): the
\* callbacks after the awaited one are not called for its transition
NotesAfterCancel(g, t) ==
    [o \in 1 .. observers |->
        IF /\ pollObs[t] # "none"
           /\ CallbackIndex(o) > pollIdx[t]
        THEN [g[o] EXCEPT !.missed = TRUE] ELSE g[o]]

\* "Notify callbacks": the loop over state_change_callbacks from position
\* first on, for the transition old -> st observed by the poll of task t.
\* The callbacks before position stop complete (outs: by returning or by
\* raising, which is caught and logged); the one at stop suspends; with
\* stop past the end the loop is over and the fallback handling follows,
\* which cancels a fallback task other than t.
\* Every callback is handed self.last_status as it is when it is called.
Deliver(t, first, old, st, status) ==
    \E stop \in first .. NumCallbacks + 1 :
    \E outs \in [{o \in 1 .. observers : CallbackIndex(o) >= first /\ CallbackIndex(o) < stop}
                   -> {"return", "raise"}] :
        LET called == [o \in 1 .. observers |->
                         IF /\ CallbackIndex(o) >= first
                            /\ CallbackIndex(o) <= stop
                         THEN [got[o] EXCEPT
                                 !.new = st,
                                 !.chained = (got[o].new \in {"none", old}),
                                 !.fresh = (status = st)]
                         ELSE got[o]]
        IN
        /\ \A i \in first .. stop - 1 : MayComplete(i)
        /\ stop <= NumCallbacks => MaySuspend(stop)
        /\ IF stop <= NumCallbacks
           THEN /\ got' = called
                /\ pollObs' = [pollObs EXCEPT ![t] = st]
                /\ pollOld' = [pollOld EXCEPT ![t] = IF observers > 0 THEN old ELSE "none"]
                /\ pollIdx' = [pollIdx EXCEPT ![t] = stop]
                /\ sawConnected' = SawAfter("keep", IF pollObs[t] = "none" THEN st ELSE "none")
                /\ UNCHANGED <<pc, delay, apc>>
           ELSE /\ got' = IF TimerEffect(st) # "keep" /\ t # "timer"
                          THEN NotesAfterCancel(called, "timer") ELSE called
                /\ FinishPoll(t, TimerEffect(st))
                /\ sawConnected' = SawAfter(TimerEffect(st),
                                            IF pollObs[t] = "none" THEN st ELSE "none")

Poll(t) ==
    /\ pc[t] \in PollSites
    /\ pollObs[t] = "none"
    /\ OthersSuspended(t)
    /\ pc[t] = "c_wait" => waitLeft[t] > 0
    /\ IF ~hasWifi
       THEN /\ current_state' = "DISCONNECTED"
            /\ last_status' = WiredOnlyStatus
            /\ FinishPoll(t, "keep")
            /\ sawConnected' = sawConnected
            /\ got' = got
       ELSE LET st == ObservedState IN
            /\ last_status' = StatusOf(st)
            /\ current_state' = st
            /\ IF st # current_state
               THEN Deliver(t, 1, current_state, st, st)
               ELSE /\ FinishPoll(t, "keep")
                    /\ sawConnected' = SawAfter("keep", st)
                    /\ got' = got
    /\ discTicks' = IF current_state' # current_state THEN 0 ELSE discTicks
    /\ UNCHANGED <<extVars, observers, timed, sideVars, role, hasWifi, backendVars, marker, registered,
                   conn, waitLeft, wfLeft, passTodo, passCaller, loopVars>>

\* The callback a poll awaits has returned or raised: the loop goes on with
\* the next callback, and after the last one the poll handles the fallback
\* timer for the state it observed
PollResume(t) ==
    /\ pollObs[t] # "none"
    /\ OthersSuspended(t)
    /\ Deliver(t, pollIdx[t] + 1, pollOld[t], pollObs[t], last_status.state)
    /\ UNCHANGED <<discTicks, extVars, observers, timed, sideVars, role, hasWifi, backendVars, marker,
                   current_state, last_status, registered, conn, waitLeft, wfLeft,
                   passTodo, passCaller, loopVars>>

----------------------------------------------------------------------------
\* FallbackTimer: _start_fallback_timer, _cancel_fallback_timer, _fallback_to_ap

\* The sleep of _fallback_to_ap is over: re-check the state, then start the AP
TimerFire ==
    /\ pc["timer"] = "t_sleep"
    /\ delay["timer"] = 0
    /\ OthersSuspended("timer")
    /\ IF current_state = "DISCONNECTED"
       THEN /\ pc' = [pc EXCEPT !["timer"] = "a_begin"]
            /\ apc' = [apc EXCEPT !["timer"] = [caller |-> "timer", result |-> "none"]]
            /\ discTicks' = Discharged
            /\ sawConnected' = sawConnected
       ELSE /\ pc' = [pc EXCEPT !["timer"] = "idle"]
            /\ apc' = apc
            /\ discTicks' = discTicks
            /\ sawConnected' = FALSE
    /\ UNCHANGED <<extVars, timed, sideVars, role, hasWifi, backendVars, marker, current_state, last_status,
                   registered, delay, pollObs, notifyVars, conn, waitLeft, wfLeft, passTodo,
                   passCaller, loopVars>>

\* _fallback_to_ap ends after start_access_point has returned
TimerDone ==
    /\ pc["timer"] = "a_ret"
    /\ pc' = [pc EXCEPT !["timer"] = "idle"]
    /\ apc' = [apc EXCEPT !["timer"] = NoAp]
    /\ sawConnected' = FALSE
    /\ UNCHANGED <<discTicks, extVars, timed, sideVars, role, hasWifi, backendVars, marker, current_state, last_status,
                   registered, delay, pollObs, notifyVars, conn, waitLeft, wfLeft, passTodo,
                   passCaller, loopVars>>

----------------------------------------------------------------------------
\* ConnectionOrchestrator: connect_to_network

\* Entry: no device -> False; else request the activation of the (existing
\* or newly created) profile and enter _wait_for_connection_state
ConnBegin(t) ==
    /\ pc[t] = "c_begin"
    /\ IF ~hasWifi
       THEN /\ conn' = [conn EXCEPT ![t].result = "false"]
            /\ pc' = [pc EXCEPT ![t] = "c_ret"]
            /\ UNCHANGED <<backendVars, waitLeft, autoconnect>>
       ELSE /\ profiles' = profiles \cup {conn[t].ssid}
            /\ autoconnect' = IF conn[t].ssid \in profiles THEN autoconnect
                              ELSE autoconnect \cup {conn[t].ssid}
            /\ pendingAct' = conn[t].ssid
            /\ waitLeft' = [waitLeft EXCEPT ![t] = Ticks(ConnectionTimeout)]
            /\ pc' = [pc EXCEPT ![t] = "c_wait"]
            /\ UNCHANGED <<devState, active, conn>>
    /\ UNCHANGED <<histVars, timestamp, tzFold, marker0, autoBefore, passLog, callVars, timed, sideVars, role, hasWifi, marker, current_state, last_status, registered,
                   delay, pollObs, notifyVars, wfLeft, apc, passTodo, passCaller, loopVars>>

\* _wait_for_connection_state: the loop condition fails, TimeoutError is
\* raised and caught by connect_to_network's except branch
WaitTimeout(t) ==
    /\ pc[t] = "c_wait"
    /\ pollObs[t] = "none"
    /\ waitLeft[t] = 0
    /\ conn' = [conn EXCEPT ![t].waitEnd = "timeout"]
    /\ pc' = [pc EXCEPT ![t] = "c_fsleep"]
    /\ delay' = [delay EXCEPT ![t] = SleepTicks(GraceSleep)]
    /\ UNCHANGED <<histVars, extVars, timed, sideVars, role, hasWifi, backendVars, marker, current_state, last_status,
                   registered, pollObs, notifyVars, waitLeft, wfLeft, apc, passTodo, passCaller,
                   loopVars>>

\* A connect_to_network that reports success for either target state
\* (what ConnCheck must differ from)
ConnCheckAnyTarget(t) ==
    /\ pc[t] = "c_chk"
    /\ IF current_state \in {"CONNECTED", "FAILED"}
       THEN /\ conn' = [conn EXCEPT ![t].waitEnd = current_state,
                                    ![t].result = "true"]
            /\ pc' = [pc EXCEPT ![t] = "c_ret"]
            /\ delay' = delay
            /\ waitLeft' = [waitLeft EXCEPT ![t] = 0]
       ELSE /\ pc' = [pc EXCEPT ![t] = "c_wsleep"]
            /\ delay' = [delay EXCEPT ![t] = SleepTicks(WaitPollSleep)]
            /\ conn' = conn
            /\ waitLeft' = waitLeft
    /\ UNCHANGED <<histVars, extVars, timed, sideVars, role, hasWifi, backendVars, marker, current_state, last_status,
                   registered, pollObs, notifyVars, wfLeft, apc, passTodo, passCaller,
                   loopVars>>

\* After a poll of the wait loop: a target state ends the wait, and
\* connect_to_network returns True on CONNECTED, falls back to AP otherwise
ConnCheck(t) ==
    /\ pc[t] = "c_chk"
    /\ IF current_state \in {"CONNECTED", "FAILED"}
       THEN IF current_state = "CONNECTED"
            THEN /\ conn' = [conn EXCEPT ![t].waitEnd = "CONNECTED",
                                         ![t].result = "true"]
                 /\ pc' = [pc EXCEPT ![t] = "c_ret"]
                 /\ delay' = delay
                 /\ waitLeft' = [waitLeft EXCEPT ![t] = 0]
            ELSE /\ conn' = [conn EXCEPT ![t].waitEnd = "FAILED"]
                 /\ pc' = [pc EXCEPT ![t] = "c_fsleep"]
                 /\ delay' = [delay EXCEPT ![t] = SleepTicks(GraceSleep)]
                 /\ waitLeft' = [waitLeft EXCEPT ![t] = 0]
       ELSE /\ pc' = [pc EXCEPT ![t] = "c_wsleep"]
            /\ delay' = [delay EXCEPT ![t] = SleepTicks(WaitPollSleep)]
            /\ conn' = conn
            /\ waitLeft' = waitLeft
    /\ UNCHANGED <<histVars, extVars, timed, sideVars, role, hasWifi, backendVars, marker, current_state, last_status,
                   registered, pollObs, notifyVars, wfLeft, apc, passTodo, passCaller,
                   loopVars>>

\* A failed connect that returns False after the grace sleep without
\* calling start_access_point (what ConnFallback must differ from)
ConnFallbackWithoutAp(t) ==
    /\ pc[t] = "c_fsleep"
    /\ delay[t] = 0
    /\ OthersSuspended(t)
    /\ pc' = [pc EXCEPT ![t] = "c_ret"]
    /\ conn' = [conn EXCEPT ![t].result = "false"]
    /\ UNCHANGED <<histVars, extVars, timed, sideVars, role, hasWifi, backendVars, marker, current_state, last_status,
                   registered, delay, pollObs, notifyVars, apc, waitLeft, wfLeft, passTodo,
                   passCaller, loopVars>>

\* The grace sleep of a failed connect is over: call start_access_point
ConnFallback(t) ==
    /\ pc[t] = "c_fsleep"
    /\ delay[t] = 0
    /\ OthersSuspended(t)
    /\ pc' = [pc EXCEPT ![t] = "a_begin"]
    /\ apc' = [apc EXCEPT ![t] = [caller |-> "connect", result |-> "none"]]
    /\ UNCHANGED <<histVars, extVars, timed, sideVars, role, hasWifi, backendVars, marker, current_state, last_status,
                   registered, delay, pollObs, notifyVars, conn, waitLeft, wfLeft, passTodo,
                   passCaller, loopVars>>

\* start_access_point has returned inside connect_to_network: return False
ConnAfterAp(t) ==
    /\ pc[t] = "a_ret"
    /\ apc[t].caller = "connect"
    /\ conn' = [conn EXCEPT ![t].result = "false"]
    /\ apc' = [apc EXCEPT ![t] = NoAp]
    /\ pc' = [pc EXCEPT ![t] = "c_ret"]
    /\ UNCHANGED <<histVars, extVars, timed, sideVars, role, hasWifi, backendVars, marker, current_state, last_status,
                   registered, delay, pollObs, notifyVars, waitLeft, wfLeft, passTodo, passCaller,
                   loopVars>>

----------------------------------------------------------------------------
\* ConnectionOrchestrator: start_access_point

\* The line of a profile in `nmcli connection show` contains "hotspot" or
\* the configured AP ssid
ListedAsHotspot(s) == s = APSsid \/ s \in HotspotNamed

\* The synchronous nmcli block: disconnect the device, delete the hotspot
\* profiles, create the hotspot.  ok is the exit status of the creation.
ApBegin(t) ==
    /\ pc[t] = "a_begin"
    /\ \E ok \in {b \in BOOLEAN : b => hasWifi} :
        /\ pendingAct' = "none"
        /\ autoconnect' = {s \in autoconnect : ~ListedAsHotspot(s)}
        /\ tornDown' = IF apc[t].caller \in {"direct", "enable"}
                       THEN devState = "ACTIVATED" /\ active = APSsid
                       ELSE tornDown
        /\ IF ok
           THEN /\ profiles' = {s \in profiles : ~ListedAsHotspot(s)} \cup {APSsid}
                /\ devState' = "ACTIVATED"
                /\ active' = APSsid
                /\ pc' = [pc EXCEPT ![t] = "a_settle"]
                /\ delay' = [delay EXCEPT ![t] = SleepTicks(ApSettleSleep)]
                /\ apc' = [apc EXCEPT ![t].result = "true"]
           ELSE /\ profiles' = {s \in profiles : ~ListedAsHotspot(s)}
                /\ devState' = "DISCONNECTED"
                /\ active' = "none"
                /\ pc' = [pc EXCEPT ![t] = "a_ret"]
                /\ delay' = delay
                /\ apc' = [apc EXCEPT ![t].result = "false"]
    /\ UNCHANGED <<histVars, timestamp, tzFold, marker0, autoBefore, passLog, callHist, timed, sideVars, role,
                   hasWifi, marker, current_state, last_status, registered,
                   pollObs, notifyVars, conn, waitLeft, wfLeft, passTodo, passCaller, loopVars>>

----------------------------------------------------------------------------
\* Sleeps that only lead to the next statement

AfterSleep(p) ==
    CASE p = "i_csleep" -> "c_begin"
      [] p = "c_wsleep" -> "c_wait"
      [] p = "a_settle" -> "a_poll"
      [] p = "p_pause" -> "p_try"
      [] p = "ml_sleep" -> "ml_poll"
      [] p = "s_settle" -> "s_poll"
      [] p = "e_sleep" -> "e_disable"
      [] OTHER -> "mon_poll"

Wake(t) ==
    /\ pc[t] \in {"i_csleep", "c_wsleep", "a_settle", "p_pause", "ml_sleep", "mon_sleep",
                 "s_settle", "e_sleep"}
    /\ delay[t] = 0
    /\ OthersSuspended(t)
    /\ pc' = [pc EXCEPT ![t] = AfterSleep(pc[t])]
    /\ UNCHANGED <<histVars, extVars, timed, sideVars, role, hasWifi, backendVars, marker, current_state, last_status,
                   registered, delay, pollObs, notifyVars, conn, waitLeft, wfLeft, apc, passTodo,
                   passCaller, loopVars>>

----------------------------------------------------------------------------
\* StartupReconnector: _cleanup_temporary_ap_mode and _attempt_startup_connection

\* get_known_networks: the stored profiles that are not access points
KnownNetworks == {s \in profiles : ~IsApConnection(s)}

\* datetime.fromtimestamp(ts): the reading of the host's local clock at ts;
\* instants up to FoldAt were read DstShift ahead when the clock was set back
LocalTime(ts) == IF tzFold /\ ts <= FoldAt THEN ts + DstShift ELSE ts

\* The last_used entry of get_known_networks: None (here 0) without a
\* timestamp, else the ISO text of the local time, which compares as the
\* local time does
LastUsed(s) == IF timestamp[s] = 0 THEN 0 ELSE LocalTime(timestamp[s])

\* sorted() compares every element of a list of two or more; a comparison
\* with a None key raises TypeError
SortRaises(S) == Cardinality(S) >= 2 /\ \E s \in S : timestamp[s] = 0

\* sorted(known_networks, key=last_used, reverse=True)
RECURSIVE SortByLastUsed(_)
SortByLastUsed(S) ==
    IF S = {} THEN <<>>
    ELSE LET m == CHOOSE x \in S : \A y \in S : LastUsed(y) <= LastUsed(x)
         IN <<m>> \o SortByLastUsed(S \ {m})

\* A reconciliation that leaves a marker that is not JSON in place (what
\* Cleanup must differ from)
CleanupKeepsCorrupt ==
    /\ pc["main"] = "i_cleanup"
    /\ IF marker.kind \in {"absent", "corrupt", "unreadable"}
       THEN /\ marker' = marker
            /\ autoconnect' = autoconnect
            /\ pc' = [pc EXCEPT !["main"] = "i_poll"]
            /\ UNCHANGED <<delay, conn>>
       ELSE IF marker.previous_ssid # "null" /\ marker.manual_activation
       THEN /\ marker' = marker
            /\ autoconnect' = autoconnect \cup {s \in profiles : s # APSsid}
            /\ pc' = [pc EXCEPT !["main"] = "i_csleep"]
            /\ delay' = [delay EXCEPT !["main"] = SleepTicks(BootSettleSleep)]
            /\ conn' = [conn EXCEPT !["main"] =
                          [NoConn EXCEPT !.ssid = marker.previous_ssid,
                                         !.caller = "cleanup"]]
       ELSE /\ marker' = NoMarker
            /\ autoconnect' = autoconnect \cup {s \in profiles : s # APSsid}
            /\ pc' = [pc EXCEPT !["main"] = "i_poll"]
            /\ UNCHANGED <<delay, conn>>
    /\ UNCHANGED <<histVars, timestamp, tzFold, marker0, autoBefore, passLog, callVars, timed, sideVars,
                   role, hasWifi, backendVars, current_state, last_status, registered,
                   pollObs, notifyVars, waitLeft, wfLeft, apc, passTodo, passCaller, loopVars>>

\* _enable_autoconnect_on_known_networks: every wireless profile that is
\* not an access point auto-connects afterwards
EnableAutoconnect == autoconnect \cup {s \in profiles : ~IsApConnection(s)}

\* _disable_autoconnect_on_known_networks
DisableAutoconnect == {s \in autoconnect : IsApConnection(s)}

\* _cleanup_temporary_ap_mode up to its first suspension.  A marker that is
\* not JSON re-enables auto-connect and is unlinked; one that cannot be
\* opened goes to the outer except clause, whose unlink may fail as well
\* (the failure is swallowed).
Cleanup ==
    /\ pc["main"] = "i_cleanup"
    /\ IF marker.kind = "absent"
       THEN /\ marker' = NoMarker
            /\ autoconnect' = autoconnect
            /\ pc' = [pc EXCEPT !["main"] = "i_poll"]
            /\ UNCHANGED <<delay, conn>>
       ELSE IF marker.kind = "corrupt"
       THEN /\ marker' = NoMarker
            /\ autoconnect' = EnableAutoconnect
            /\ pc' = [pc EXCEPT !["main"] = "i_poll"]
            /\ UNCHANGED <<delay, conn>>
       ELSE IF marker.kind = "unreadable"
       THEN /\ \E removed \in BOOLEAN : marker' = IF removed THEN NoMarker ELSE marker
            /\ autoconnect' = autoconnect
            /\ pc' = [pc EXCEPT !["main"] = "i_poll"]
            /\ UNCHANGED <<delay, conn>>
       ELSE IF marker.previous_ssid # "null" /\ marker.manual_activation
       THEN /\ marker' = marker
            /\ autoconnect' = EnableAutoconnect
            /\ pc' = [pc EXCEPT !["main"] = "i_csleep"]
            /\ delay' = [delay EXCEPT !["main"] = SleepTicks(BootSettleSleep)]
            /\ conn' = [conn EXCEPT !["main"] =
                          [NoConn EXCEPT !.ssid = marker.previous_ssid,
                                         !.caller = "cleanup"]]
       ELSE /\ marker' = NoMarker
            /\ autoconnect' = EnableAutoconnect
            /\ pc' = [pc EXCEPT !["main"] = "i_poll"]
            /\ UNCHANGED <<delay, conn>>
    /\ UNCHANGED <<histVars, timestamp, tzFold, marker0, autoBefore, passLog, callVars, timed, sideVars, role, hasWifi, backendVars, current_state, last_status, registered,
                   pollObs, notifyVars, waitLeft, wfLeft, apc, passTodo, passCaller, loopVars>>

\* The reconnection of the marker has returned: unlink the marker, go on
\* with initialize()
CleanupAfterConnect ==
    /\ pc["main"] = "c_ret"
    /\ conn["main"].caller = "cleanup"
    /\ marker' = NoMarker
    /\ conn' = [conn EXCEPT !["main"] = NoConn]
    /\ pc' = [pc EXCEPT !["main"] = "i_poll"]
    /\ UNCHANGED <<histVars, extVars, timed, sideVars, role, hasWifi, backendVars, current_state, last_status, registered,
                   delay, pollObs, notifyVars, waitLeft, wfLeft, apc, passTodo, passCaller, loopVars>>

PassReturnPc == IF passCaller = "loop" THEN "ml_after" ELSE "i_done"

\* A reconnector without the "already connected" check (what PassBegin
\* must differ from)
PassBeginUnconditional ==
    /\ pc["main"] = "p_begin"
    /\ IF KnownNetworks = {} \/ SortRaises(KnownNetworks)
       THEN /\ pc' = TimerPc([pc EXCEPT !["main"] = PassReturnPc], "arm")
            /\ delay' = TimerDelay(delay, "arm")
            /\ apc' = TimerReset(apc, "arm", NoAp)
            /\ pollObs' = TimerReset(pollObs, "arm", "none")
            /\ pollOld' = TimerReset(pollOld, "arm", "none")
            /\ pollIdx' = TimerReset(pollIdx, "arm", 0)
            /\ got' = NotesAfterCancel(got, "timer")
            /\ observers' = observers
            /\ sawConnected' = SawAfter("arm", "none")
            /\ passTodo' = passTodo
            /\ passLog' = [NoPassLog EXCEPT
                             !.known = KnownNetworks,
                             !.end = IF KnownNetworks = {} THEN "empty" ELSE "error"]
       ELSE /\ passTodo' = SortByLastUsed(KnownNetworks)
            /\ pc' = [pc EXCEPT !["main"] = "p_try"]
            /\ passLog' = [NoPassLog EXCEPT !.known = KnownNetworks]
            /\ UNCHANGED <<delay, apc, pollObs, notifyVars, sawConnected>>
    /\ UNCHANGED <<discTicks, envVars, timed, sideVars, role, hasWifi, backendVars, marker,
                   current_state, last_status, registered, conn, waitLeft, wfLeft,
                   passCaller, loopVars>>

\* _attempt_startup_connection up to the first attempt
PassBegin ==
    /\ pc["main"] = "p_begin"
    /\ IF current_state = "CONNECTED"
       THEN /\ pc' = [pc EXCEPT !["main"] = PassReturnPc]
            /\ passLog' = [NoPassLog EXCEPT !.end = "skip"]
            /\ UNCHANGED <<delay, apc, pollObs, notifyVars, passTodo, sawConnected>>
       ELSE IF KnownNetworks = {} \/ SortRaises(KnownNetworks)
       THEN /\ pc' = TimerPc([pc EXCEPT !["main"] = PassReturnPc], "arm")
            /\ delay' = TimerDelay(delay, "arm")
            /\ apc' = TimerReset(apc, "arm", NoAp)
            /\ pollObs' = TimerReset(pollObs, "arm", "none")
            /\ pollOld' = TimerReset(pollOld, "arm", "none")
            /\ pollIdx' = TimerReset(pollIdx, "arm", 0)
            /\ got' = NotesAfterCancel(got, "timer")
            /\ observers' = observers
            /\ sawConnected' = SawAfter("arm", "none")
            /\ passTodo' = passTodo
            /\ passLog' = [NoPassLog EXCEPT
                             !.known = KnownNetworks,
                             !.end = IF KnownNetworks = {} THEN "empty" ELSE "error"]
       ELSE /\ passTodo' = SortByLastUsed(KnownNetworks)
            /\ pc' = [pc EXCEPT !["main"] = "p_try"]
            /\ passLog' = [NoPassLog EXCEPT !.known = KnownNetworks]
            /\ UNCHANGED <<delay, apc, pollObs, notifyVars, sawConnected>>
    /\ UNCHANGED <<discTicks, envVars, timed, sideVars, role, hasWifi, backendVars, marker, current_state, last_status,
                   registered, conn, waitLeft, wfLeft, passCaller, loopVars>>

\* The loop over the known networks: the next attempt under wait_for, or,
\* after the last one, the fallback timer
PassTry ==
    /\ pc["main"] = "p_try"
    /\ IF passTodo = <<>>
       THEN /\ pc' = TimerPc([pc EXCEPT !["main"] = PassReturnPc], "arm")
            /\ delay' = TimerDelay(delay, "arm")
            /\ apc' = TimerReset(apc, "arm", NoAp)
            /\ pollObs' = TimerReset(pollObs, "arm", "none")
            /\ pollOld' = TimerReset(pollOld, "arm", "none")
            /\ pollIdx' = TimerReset(pollIdx, "arm", 0)
            /\ got' = NotesAfterCancel(got, "timer")
            /\ observers' = observers
            /\ sawConnected' = SawAfter("arm", "none")
            /\ passLog' = [passLog EXCEPT !.end = "exhausted"]
            /\ UNCHANGED <<conn, passTodo, wfLeft>>
       ELSE /\ conn' = [conn EXCEPT !["main"] =
                          [NoConn EXCEPT !.ssid = Head(passTodo), !.caller = "pass"]]
            /\ passTodo' = Tail(passTodo)
            /\ passLog' = [passLog EXCEPT !.tried = Append(@, Head(passTodo))]
            /\ wfLeft' = Ticks(StartupAttemptTimeout)
            /\ pc' = [pc EXCEPT !["main"] = "c_begin"]
            /\ UNCHANGED <<delay, apc, pollObs, notifyVars, sawConnected>>
    /\ UNCHANGED <<discTicks, envVars, timed, sideVars, role, hasWifi, backendVars, marker, current_state, last_status,
                   registered, waitLeft, passCaller, loopVars>>

\* connect_to_network has returned to the reconnector
PassAfterAttempt ==
    /\ pc["main"] = "c_ret"
    /\ conn["main"].caller = "pass"
    /\ conn' = [conn EXCEPT !["main"] = NoConn]
    /\ IF conn["main"].result = "true"
       THEN /\ pc' = [pc EXCEPT !["main"] = PassReturnPc]
            /\ passTodo' = <<>>
            /\ delay' = delay
            /\ passLog' = [passLog EXCEPT !.end = "success"]
       ELSE /\ pc' = [pc EXCEPT !["main"] = "p_pause"]
            /\ delay' = [delay EXCEPT !["main"] = SleepTicks(AttemptPause)]
            /\ passTodo' = passTodo
            /\ passLog' = passLog
    /\ wfLeft' = 0
    /\ UNCHANGED <<histVars, envVars, timed, sideVars, role, hasWifi, backendVars, marker, current_state, last_status,
                   registered, pollObs, notifyVars, waitLeft, apc, passCaller, loopVars>>

\* asyncio.wait_for expires: the attempt is cancelled where it is suspended
\* (CancelledError passes the except Exception clauses), TimeoutError is
\* caught by the reconnector
WaitForExpired ==
    /\ conn["main"].caller = "pass"
    /\ pc["main"] \in {"c_wsleep", "c_fsleep", "a_settle"}
    /\ wfLeft = 0
    /\ OthersSuspended("main")
    /\ conn' = [conn EXCEPT !["main"] = NoConn]
    /\ apc' = [apc EXCEPT !["main"] = NoAp]
    /\ pc' = [pc EXCEPT !["main"] = "p_pause"]
    /\ delay' = [delay EXCEPT !["main"] = SleepTicks(AttemptPause)]
    /\ waitLeft' = [waitLeft EXCEPT !["main"] = 0]
    /\ UNCHANGED <<histVars, extVars, timed, sideVars, role, hasWifi, backendVars, marker, current_state, last_status,
                   registered, pollObs, notifyVars, wfLeft, passTodo, passCaller, loopVars>>

\* initialize() has returned: the owner adds its callback; the service
\* enters _run_main_loop, the gateway starts serving requests
InitDone ==
    /\ pc["main"] = "i_done"
    /\ registered' = TRUE
    /\ pc' = [pc EXCEPT !["main"] = IF role = "service" THEN "ml_ipoll" ELSE "g_done"]
    /\ passLog' = NoPassLog
    /\ UNCHANGED <<histVars, envVars, timed, sideVars, role, hasWifi, backendVars, marker, current_state, last_status,
                   delay, pollObs, notifyVars, conn, waitLeft, wfLeft, apc, passTodo, passCaller,
                   loopVars>>

----------------------------------------------------------------------------
\* NetworkService._run_main_loop

\* "Check initial state and start AP if needed"
MainInitialCheck ==
    /\ pc["main"] = "ml_ichk"
    /\ IF last_status.state = "DISCONNECTED"
       THEN /\ pc' = [pc EXCEPT !["main"] = "a_begin"]
            /\ apc' = [apc EXCEPT !["main"] = [caller |-> "initial", result |-> "none"]]
       ELSE /\ pc' = [pc EXCEPT !["main"] = "ml_poll"]
            /\ apc' = apc
    /\ UNCHANGED <<histVars, extVars, timed, sideVars, role, hasWifi, backendVars, marker, current_state, last_status,
                   registered, delay, pollObs, notifyVars, conn, waitLeft, wfLeft, passTodo,
                   passCaller, loopVars>>

MainAfterInitialAp ==
    /\ pc["main"] = "a_ret"
    /\ apc["main"].caller = "initial"
    /\ apc' = [apc EXCEPT !["main"] = NoAp]
    /\ pc' = [pc EXCEPT !["main"] = "ml_poll"]
    /\ UNCHANGED <<histVars, extVars, timed, sideVars, role, hasWifi, backendVars, marker, current_state, last_status,
                   registered, delay, pollObs, notifyVars, conn, waitLeft, wfLeft, passTodo,
                   passCaller, loopVars>>

\* One iteration of the loop after get_status: the reconnection pass when
\* disconnected for more than ReconnectGap, else sleep
MainLoopCheck ==
    /\ pc["main"] = "ml_chk"
    /\ IF /\ last_status.state = "DISCONNECTED"
          /\ ~last_status.ap_active
          /\ sinceLast > Ticks(ReconnectGap)
       THEN /\ reconnect_attempt' = reconnect_attempt + 1
            /\ sinceLast' = 0
            /\ passCaller' = "loop"
            /\ pc' = [pc EXCEPT !["main"] = "p_begin"]
            /\ delay' = delay
       ELSE /\ IF last_status.state = "CONNECTED"
               THEN reconnect_attempt' = 0 /\ sinceLast' = GapCap
               ELSE UNCHANGED loopVars
            /\ passCaller' = passCaller
            /\ pc' = [pc EXCEPT !["main"] = "ml_sleep"]
            /\ delay' = [delay EXCEPT !["main"] = SleepTicks(MainLoopSleep)]
    /\ UNCHANGED <<histVars, extVars, timed, sideVars, role, hasWifi, backendVars, marker, current_state, last_status,
                   registered, pollObs, notifyVars, conn, waitLeft, wfLeft, apc, passTodo>>

\* The pass has returned: last_reconnect_time = current_time, and after
\* MaxReconnectAttempts passes a pause of ReconnectPenalty
MainLoopAfterPass ==
    /\ pc["main"] = "ml_after"
    /\ IF reconnect_attempt >= MaxReconnectAttempts
       THEN /\ reconnect_attempt' = 0
            /\ sinceLast' = sinceLast - Ticks(ReconnectPenalty)
       ELSE UNCHANGED loopVars
    /\ pc' = [pc EXCEPT !["main"] = "ml_sleep"]
    /\ delay' = [delay EXCEPT !["main"] = SleepTicks(MainLoopSleep)]
    /\ passLog' = NoPassLog
    /\ UNCHANGED <<histVars, envVars, timed, sideVars, role, hasWifi, backendVars, marker, current_state, last_status,
                   registered, pollObs, notifyVars, conn, waitLeft, wfLeft, apc, passTodo,
                   passCaller>>

----------------------------------------------------------------------------
\* Requests of the API gateway (POST /api/v1/network/connect)

ApiConnect(s) ==
    /\ role = "gateway"
    /\ pc["main"] = "g_done"
    /\ pc["api"] = "api_idle"
    /\ OthersSuspended("api")
    /\ conn' = [conn EXCEPT !["api"] = [NoConn EXCEPT !.ssid = s, !.caller = "api"]]
    /\ pc' = [pc EXCEPT !["api"] = "c_begin"]
    /\ UNCHANGED <<histVars, extVars, timed, sideVars, role, hasWifi, backendVars, marker, current_state, last_status,
                   registered, delay, pollObs, notifyVars, waitLeft, wfLeft, apc, passTodo,
                   passCaller, loopVars>>

ApiConnectDone ==
    /\ pc["api"] = "c_ret"
    /\ conn["api"].caller = "api"
    /\ conn' = [conn EXCEPT !["api"] = NoConn]
    /\ pc' = [pc EXCEPT !["api"] = "api_idle"]
    /\ UNCHANGED <<histVars, extVars, timed, sideVars, role, hasWifi, backendVars, marker, current_state, last_status,
                   registered, delay, pollObs, notifyVars, waitLeft, wfLeft, apc, passTodo,
                   passCaller, loopVars>>

----------------------------------------------------------------------------
\* The AP operations of the manager, called by a user of its interface:
\* start_access_point, stop_access_point, enable_ap_mode, disable_ap_mode

\* The access point of the configured ssid is the device's active connection
ApActive == devState = "ACTIVATED" /\ active # "none" /\ IsApConnection(active)

\* The client network the device is connected to, or "none"
ConnectedSsid ==
    IF devState = "ACTIVATED" /\ active # "none" /\ ~IsApConnection(active)
    THEN active ELSE "none"

\* _store_current_connection: the ssid of the first active wireless
\* connection that is not an access point, or null
ActiveClient == IF active # "none" /\ ~IsApConnection(active) THEN active ELSE "null"

BeginCall(o) ==
    [callHist EXCEPT !.cur =
        [op |-> o, result |-> "none",
         apBefore |-> IF o \in {"start", "stop"} THEN ApActive ELSE FALSE,
         connBefore |-> IF o = "enable" THEN ConnectedSsid ELSE "none"]]

\* The history keeps a completed start_access_point, enable_ap_mode or
\* shutdown until the next call has returned
EndCall(res) ==
    [cur |-> NoCall,
     last |-> IF callHist.cur.op \in {"start", "enable", "shutdown"}
              THEN [callHist.cur EXCEPT !.result = res] ELSE NoCall]

\* The manager is initialized and the caller is between two calls
CallerReady ==
    /\ pc["main"] = "g_done"
    /\ pc["api"] = "api_idle"
    /\ callHist.cur.op = "none"
    /\ OthersSuspended("api")

\* What no AP operation of the caller assigns
callerFrame == <<histVars, timestamp, tzFold, marker0, passLog, timed, sideVars, role, hasWifi,
                 current_state, last_status, registered, pollObs, notifyVars, conn, waitLeft, wfLeft,
                 passTodo, passCaller, loopVars>>

\* The caller calls start_access_point
CallStart ==
    /\ CallerReady
    /\ pc' = [pc EXCEPT !["api"] = "a_begin"]
    /\ apc' = [apc EXCEPT !["api"] = [caller |-> "direct", result |-> "none"]]
    /\ callHist' = BeginCall("start")
    /\ UNCHANGED <<callerFrame, backendVars, marker, delay, autoconnect, autoBefore, tornDown>>

\* start_access_point returns to the caller
StartDone ==
    /\ pc["api"] = "a_ret"
    /\ apc["api"].caller = "direct"
    /\ callHist' = EndCall(apc["api"].result)
    /\ apc' = [apc EXCEPT !["api"] = NoAp]
    /\ pc' = [pc EXCEPT !["api"] = "api_idle"]
    /\ tornDown' = FALSE
    /\ autoBefore' = {}
    /\ UNCHANGED <<callerFrame, backendVars, marker, delay, autoconnect>>

\* The caller calls stop_access_point
CallStop ==
    /\ CallerReady
    /\ pc' = [pc EXCEPT !["api"] = "s_begin"]
    /\ callHist' = BeginCall("stop")
    /\ UNCHANGED <<callerFrame, backendVars, marker, delay, apc, autoconnect, autoBefore,
                   tornDown>>

\* stop_access_point, the synchronous nmcli block: every active wifi
\* connection whose listing line contains "hotspot" or the AP ssid is taken
\* down and deleted (the commands succeed).  The second listing looks for
\* profile names that contain the AP ssid; the hotspot profile is named
\* "Hotspot" and no client profile of the model has such a name, so it
\* deletes nothing.  Then the settle sleep.
StopBegin ==
    /\ pc["api"] = "s_begin"
    /\ IF active # "none" /\ ListedAsHotspot(active)
       THEN /\ devState' = "DISCONNECTED"
            /\ active' = "none"
            /\ profiles' = profiles \ {active}
            /\ autoconnect' = autoconnect \ {active}
       ELSE UNCHANGED <<devState, active, profiles, autoconnect>>
    /\ pc' = [pc EXCEPT !["api"] = "s_settle"]
    /\ delay' = [delay EXCEPT !["api"] = SleepTicks(StopSettleSleep)]
    /\ UNCHANGED <<callerFrame, pendingAct, marker, apc, autoBefore, callHist, tornDown>>

\* stop_access_point returns True to the caller, whatever it found
StopDone ==
    /\ pc["api"] = "s_ret"
    /\ callHist.cur.op = "stop"
    /\ apc["api"].result = "none"
    /\ callHist' = EndCall("true")
    /\ pc' = [pc EXCEPT !["api"] = "api_idle"]
    /\ autoBefore' = {}
    /\ UNCHANGED <<callerFrame, backendVars, marker, delay, apc, autoconnect, tornDown>>

\* enable_ap_mode up to the sleep of _disconnect_all_wifi: the marker is
\* written, the active client connection is deactivated
EnableBegin ==
    /\ CallerReady
    /\ marker' = [kind |-> "valid", previous_ssid |-> ActiveClient,
                  manual_activation |-> TRUE]
    /\ IF ActiveClient # "null"
       THEN devState' = "DISCONNECTED" /\ active' = "none"
       ELSE UNCHANGED <<devState, active>>
    /\ autoBefore' = autoconnect
    /\ callHist' = BeginCall("enable")
    /\ pc' = [pc EXCEPT !["api"] = "e_sleep"]
    /\ delay' = [delay EXCEPT !["api"] = SleepTicks(DisconnectSleep)]
    /\ UNCHANGED <<callerFrame, pendingAct, profiles, apc, autoconnect, tornDown>>

\* enable_ap_mode after the sleep: auto-connect is switched off on the known
\* networks and start_access_point is called
EnableStartAp ==
    /\ pc["api"] = "e_disable"
    /\ autoconnect' = DisableAutoconnect
    /\ pc' = [pc EXCEPT !["api"] = "a_begin"]
    /\ apc' = [apc EXCEPT !["api"] = [caller |-> "enable", result |-> "none"]]
    /\ UNCHANGED <<callerFrame, backendVars, marker, delay, autoBefore, callHist, tornDown>>

\* start_access_point has returned inside enable_ap_mode, which returns its result
EnableDone ==
    /\ pc["api"] = "a_ret"
    /\ apc["api"].caller = "enable"
    /\ callHist' = EndCall(apc["api"].result)
    /\ apc' = [apc EXCEPT !["api"] = NoAp]
    /\ pc' = [pc EXCEPT !["api"] = "api_idle"]
    /\ tornDown' = FALSE
    /\ UNCHANGED <<callerFrame, backendVars, marker, delay, autoconnect, autoBefore>>

\* The caller calls disable_ap_mode, which calls stop_access_point
CallDisable ==
    /\ CallerReady
    /\ pc' = [pc EXCEPT !["api"] = "s_begin"]
    /\ callHist' = BeginCall("disable")
    /\ UNCHANGED <<callerFrame, backendVars, marker, delay, apc, autoconnect, autoBefore,
                   tornDown>>

\* stop_access_point has returned True inside disable_ap_mode: auto-connect
\* is switched on for every known network, the network of the marker is
\* activated if its profile exists, the marker is unlinked
DisableAfterStop ==
    /\ pc["api"] = "s_ret"
    /\ callHist.cur.op = "disable"
    /\ apc["api"].result = "none"
    /\ autoconnect' = EnableAutoconnect
    /\ pendingAct' = IF /\ marker.kind = "valid"
                        /\ marker.previous_ssid # "null"
                        /\ marker.previous_ssid \in profiles
                     THEN marker.previous_ssid ELSE pendingAct
    /\ marker' = NoMarker
    /\ callHist' = EndCall("true")
    /\ pc' = [pc EXCEPT !["api"] = "api_idle"]
    /\ autoBefore' = {}
    /\ UNCHANGED <<callerFrame, devState, active, profiles, delay, apc, tornDown>>

\* The errors a backend call (nmcli subprocess, NetworkManager client) raises
BackendErrors == {"TimeoutExpired", "GLibError"}

\* A handler that catches the timeout of a subprocess only (what
\* CaughtAtTopLevel must differ from)
CaughtOnlyTimeout(e) == e = "TimeoutExpired"

\* `except Exception` around the body of an operation: every backend error
\* is an Exception
CaughtAtTopLevel(e) == e \in BackendErrors

\* What an operation hands to its caller when its body raises e
Outcome(e) == IF CaughtAtTopLevel(e) THEN "false" ELSE "raised"

\* connect_to_network: looking up or activating the profile raises; the
\* except branch sleeps and calls start_access_point before it returns False
ConnRaise(t) ==
    /\ pc[t] = "c_begin"
    /\ hasWifi
    /\ \E e \in BackendErrors :
         IF CaughtAtTopLevel(e)
         THEN /\ conn' = [conn EXCEPT ![t].waitEnd = "error"]
              /\ pc' = [pc EXCEPT ![t] = "c_fsleep"]
              /\ delay' = [delay EXCEPT ![t] = SleepTicks(GraceSleep)]
         ELSE /\ conn' = [conn EXCEPT ![t].waitEnd = "error", ![t].result = "raised"]
              /\ pc' = [pc EXCEPT ![t] = "c_ret"]
              /\ delay' = delay
    /\ UNCHANGED <<histVars, extVars, timed, sideVars, role, hasWifi, backendVars, marker, current_state, last_status,
                   registered, pollObs, notifyVars, waitLeft, wfLeft, apc, passTodo, passCaller,
                   loopVars>>

\* start_access_point: a command of the nmcli block raises, either the first
\* one or the hotspot creation after the device was disconnected and the
\* hotspot profiles were deleted
ApRaise(t) ==
    /\ pc[t] = "a_begin"
    /\ \E e \in BackendErrors : apc' = [apc EXCEPT ![t].result = Outcome(e)]
    /\ \/ UNCHANGED <<backendVars, autoconnect, tornDown>>
       \/ /\ pendingAct' = "none"
          /\ autoconnect' = {s \in autoconnect : ~ListedAsHotspot(s)}
          /\ profiles' = {s \in profiles : ~ListedAsHotspot(s)}
          /\ devState' = "DISCONNECTED"
          /\ active' = "none"
          /\ tornDown' = IF apc[t].caller \in {"direct", "enable"}
                         THEN devState = "ACTIVATED" /\ active = APSsid
                         ELSE tornDown
    /\ pc' = [pc EXCEPT ![t] = "a_ret"]
    /\ UNCHANGED <<histVars, timestamp, tzFold, marker0, autoBefore, passLog, callHist, timed, sideVars, role,
                   hasWifi, marker, current_state, last_status, registered, delay,
                   pollObs, notifyVars, conn, waitLeft, wfLeft, passTodo, passCaller, loopVars>>

\* start_access_point when the deletion of the stored hotspot profile had no
\* effect and the creation fails with "already exists": the profile is
\* brought up by _activate_existing_hotspot, whose exit status is the result.
\* The call returns without the settle sleep and without a poll.
ApActivateExisting(t) ==
    /\ pc[t] = "a_begin"
    /\ hasWifi
    /\ APSsid \in profiles
    /\ pendingAct' = "none"
    /\ autoconnect' = {s \in autoconnect : ~ListedAsHotspot(s)}
    /\ profiles' = {s \in profiles : ~ListedAsHotspot(s)} \cup {APSsid}
    /\ tornDown' = IF apc[t].caller \in {"direct", "enable"}
                   THEN devState = "ACTIVATED" /\ active = APSsid
                   ELSE tornDown
    /\ \E up \in BOOLEAN :
         IF up
         THEN /\ devState' = "ACTIVATED"
              /\ active' = APSsid
              /\ apc' = [apc EXCEPT ![t].result = "true"]
         ELSE /\ devState' = "DISCONNECTED"
              /\ active' = "none"
              /\ apc' = [apc EXCEPT ![t].result = "false"]
    /\ pc' = [pc EXCEPT ![t] = "a_ret"]
    /\ UNCHANGED <<histVars, timestamp, tzFold, marker0, autoBefore, passLog, callHist, timed, sideVars, role,
                   hasWifi, marker, current_state, last_status, registered, delay,
                   pollObs, notifyVars, conn, waitLeft, wfLeft, passTodo, passCaller, loopVars>>

\* A poll that raises after it has assigned the state it derived (what
\* PollRaises must differ from)
PollRaisesLate(t) ==
    /\ pc[t] \in PollSites
    /\ pollObs[t] = "none"
    /\ OthersSuspended(t)
    /\ pc[t] = "c_wait" => waitLeft[t] > 0
    /\ hasWifi
    /\ current_state' = ObservedState
    /\ last_status' = StatusOf(ObservedState)
    /\ FinishPoll(t, "keep")
    /\ UNCHANGED <<histVars, extVars, observers, got, timed, sideVars, role, hasWifi, backendVars,
                   marker, registered, conn, waitLeft, wfLeft, passTodo, passCaller, loopVars>>

\* _update_network_state: a query of the device (its state, its active
\* connection, the ssid, address, signal or client count) raises.  Every
\* query precedes the assignment of last_status; `except Exception` around
\* the body logs the error and the poll returns to its caller.
PollRaises(t) ==
    /\ pc[t] \in PollSites
    /\ pollObs[t] = "none"
    /\ OthersSuspended(t)
    /\ pc[t] = "c_wait" => waitLeft[t] > 0
    /\ hasWifi
    /\ FinishPoll(t, "keep")
    /\ UNCHANGED <<histVars, extVars, observers, got, timed, sideVars, role, hasWifi, backendVars,
                   marker, current_state, last_status, registered, conn, waitLeft, wfLeft,
                   passTodo, passCaller, loopVars>>

\* stop_access_point: the listing of the active connections raises
StopRaise ==
    /\ pc["api"] = "s_begin"
    /\ \E e \in BackendErrors : apc' = [apc EXCEPT !["api"].result = Outcome(e)]
    /\ pc' = [pc EXCEPT !["api"] = "s_ret"]
    /\ UNCHANGED <<callerFrame, backendVars, marker, delay, autoconnect, autoBefore, callHist,
                   tornDown>>

\* stop_access_point has returned False: it, or the disable_ap_mode that
\* called it, returns False and restores nothing
StopFailed ==
    /\ pc["api"] = "s_ret"
    /\ apc["api"].result # "none"
    /\ callHist' = EndCall(apc["api"].result)
    /\ apc' = [apc EXCEPT !["api"] = NoAp]
    /\ pc' = [pc EXCEPT !["api"] = "api_idle"]
    /\ autoBefore' = {}
    /\ UNCHANGED <<callerFrame, backendVars, marker, delay, autoconnect, tornDown>>

\* forget_network: False for an unknown ssid; else True once the deletion of
\* the profile has been requested (delete_async), or the lookup or the
\* request raises.  The deletion itself is the backend's, later.
ForgetNetwork(s) ==
    /\ CallerReady
    /\ pendingDel \in {"none", s}
    /\ IF s \notin profiles \ {APSsid}
       THEN /\ callHist' = [BeginCall("forget") EXCEPT !.cur.result = "false"]
            /\ pendingDel' = pendingDel
       ELSE \/ /\ callHist' = [BeginCall("forget") EXCEPT !.cur.result = "true"]
               /\ pendingDel' = s
            \/ /\ \E e \in BackendErrors :
                    callHist' = [BeginCall("forget") EXCEPT !.cur.result = Outcome(e)]
               /\ pendingDel' = pendingDel
    /\ pc' = [pc EXCEPT !["api"] = "f_ret"]
    /\ UNCHANGED <<histVars, timestamp, tzFold, marker0, passLog, timed, networks, dbLog,
                   fallback_timer, timerTasks, role, hasWifi, current_state, last_status,
                   registered, pollObs, notifyVars, conn, waitLeft, wfLeft, passTodo,
                   passCaller, loopVars, backendVars, autoconnect, marker, delay, apc,
                   autoBefore, tornDown>>

\* The backend carries out a requested deletion, or the deletion fails
\* (_delete_callback logs the error of delete_finish)
BackendDeletes ==
    /\ pendingDel # "none"
    /\ pendingDel' = "none"
    /\ \/ /\ profiles' = profiles \ {pendingDel}
          /\ autoconnect' = autoconnect \ {pendingDel}
          /\ pendingAct' = IF pendingAct = pendingDel THEN "none" ELSE pendingAct
          /\ IF active = pendingDel
             THEN devState' = "DISCONNECTED" /\ active' = "none"
             ELSE UNCHANGED <<devState, active>>
       \/ UNCHANGED <<backendVars, autoconnect>>
    /\ UNCHANGED <<histVars, timestamp, tzFold, marker0, passLog, timed, networks, dbLog,
                   fallback_timer, timerTasks, role, hasWifi, current_state, last_status,
                   registered, pollObs, notifyVars, conn, waitLeft, wfLeft, passTodo,
                   passCaller, loopVars, marker, pc, delay, apc, autoBefore, callVars>>

\* forget_network has returned to the caller
ForgetDone ==
    /\ pc["api"] = "f_ret"
    /\ callHist' = EndCall(callHist.cur.result)
    /\ pc' = [pc EXCEPT !["api"] = "api_idle"]
    /\ UNCHANGED <<callerFrame, backendVars, marker, delay, apc, autoconnect, autoBefore,
                   tornDown>>

\* scan_networks up to its return or its sleep: without a wireless device
\* it returns the empty list at once
ScanBegin ==
    /\ CallerReady
    /\ IF ~hasWifi
       THEN /\ callHist' = [BeginCall("scan") EXCEPT !.cur.result = "[]"]
            /\ pc' = [pc EXCEPT !["api"] = "sc_ret"]
            /\ delay' = delay
       ELSE /\ callHist' = BeginCall("scan")
            /\ pc' = [pc EXCEPT !["api"] = "sc_sleep"]
            /\ delay' = [delay EXCEPT !["api"] = SleepTicks(ScanSleep)]
    /\ UNCHANGED <<callerFrame, backendVars, marker, apc, autoconnect, autoBefore, tornDown>>

\* scan_networks after the sleep: the access points the device has seen,
\* or ScanError when the backend raises
ScanCollect ==
    /\ pc["api"] = "sc_sleep"
    /\ delay["api"] = 0
    /\ OthersSuspended("api")
    /\ \E res \in {"networks", "ScanError"} :
         callHist' = [callHist EXCEPT !.cur.result = res]
    /\ pc' = [pc EXCEPT !["api"] = "sc_ret"]
    /\ UNCHANGED <<callerFrame, backendVars, marker, delay, apc, autoconnect, autoBefore,
                   tornDown>>

\* scan_networks has returned to the caller
ScanDone ==
    /\ pc["api"] = "sc_ret"
    /\ callHist' = EndCall(callHist.cur.result)
    /\ pc' = [pc EXCEPT !["api"] = "api_idle"]
    /\ UNCHANGED <<callerFrame, backendVars, marker, delay, apc, autoconnect, autoBefore,
                   tornDown>>

----------------------------------------------------------------------------
\* Time

AllSuspended == \A t \in Tasks : Suspended(t)

InWaitFor == conn["main"].caller = "pass"

\* Something is due now: it runs before the clock advances
Due ==
    \/ \E t \in Tasks : pc[t] \in SleepPcs /\ delay[t] = 0
    \/ \E t \in Tasks : pollObs[t] # "none"
    \/ InWaitFor /\ wfLeft = 0

Dec(n) == IF n > 0 THEN n - 1 ELSE 0

Tick ==
    /\ timed
    /\ AllSuspended
    /\ ~Due
    /\ delay' = [t \in Tasks |-> Dec(delay[t])]
    /\ waitLeft' = [t \in Tasks |-> Dec(waitLeft[t])]
    /\ wfLeft' = Dec(wfLeft)
    /\ sinceLast' = IF sinceLast < GapCap THEN sinceLast + 1 ELSE sinceLast
    /\ discTicks' = IF /\ current_state = "DISCONNECTED"
                       /\ discTicks # Discharged
                       /\ discTicks < AgeCap
                    THEN discTicks + 1 ELSE discTicks
    /\ UNCHANGED <<sawConnected, extVars, timed, sideVars, role, hasWifi, backendVars, marker, current_state, last_status,
                   registered, pc, pollObs, notifyVars, conn, apc, passTodo, passCaller,
                   reconnect_attempt>>

\* Untimed: a timeout or the reconnection gap runs out
ElapseWait(t) ==
    /\ AllSuspended
    /\ pc[t] \in {"c_wait", "c_wsleep"}
    /\ waitLeft[t] > 0
    /\ waitLeft' = [waitLeft EXCEPT ![t] = 0]
    /\ UNCHANGED <<wfLeft, sinceLast>>

ElapseWaitFor ==
    /\ AllSuspended
    /\ InWaitFor
    /\ wfLeft > 0
    /\ wfLeft' = 0
    /\ UNCHANGED <<waitLeft, sinceLast>>

ElapseGap ==
    /\ AllSuspended
    /\ role = "service"
    /\ registered
    /\ sinceLast < GapCap
    /\ sinceLast' = GapCap
    /\ UNCHANGED <<waitLeft, wfLeft>>

Elapse ==
    /\ ~timed
    /\ \/ \E t \in Tasks : ElapseWait(t)
       \/ ElapseWaitFor
       \/ ElapseGap
    /\ UNCHANGED <<histVars, extVars, timed, sideVars, role, hasWifi, backendVars, marker, current_state, last_status,
                   registered, pc, delay, pollObs, notifyVars, conn, apc, passTodo, passCaller,
                   reconnect_attempt>>

----------------------------------------------------------------------------
\* Specifications

Core ==
    \/ \E t \in Tasks : Poll(t)
    \/ \E t \in Tasks : Wake(t)
    \/ TimerFire
    \/ TimerDone
    \/ \E t \in Tasks : ConnBegin(t)
    \/ \E t \in Tasks : WaitTimeout(t)
    \/ \E t \in Tasks : ConnCheck(t)
    \/ \E t \in Tasks : ConnFallback(t)
    \/ \E t \in Tasks : ConnAfterAp(t)
    \/ \E t \in Tasks : ApBegin(t)
    \/ Cleanup
    \/ CleanupAfterConnect
    \/ PassBegin
    \/ PassTry
    \/ PassAfterAttempt
    \/ WaitForExpired
    \/ InitDone
    \/ MainInitialCheck
    \/ MainAfterInitialAp
    \/ MainLoopCheck
    \/ MainLoopAfterPass

Resume == \E t \in Tasks : PollResume(t)

Api ==
    \/ \E s \in Ssids : ApiConnect(s)
    \/ ApiConnectDone

Next == Core \/ Resume \/ Api \/ Backend \/ Elapse

Spec == Init /\ [][Next]_vars

\* The manager and its owner without API requests, the clock modelled: a
\* sleep lasts as long as the source says
InitTimed ==
    /\ timed = TRUE
    /\ InitSide
    /\ role \in {"service", "gateway"}
    /\ marker \in InitMarkers
    /\ hasWifi \in BOOLEAN
    /\ profiles \in {{}, {"HomeWifi"}}
    \* the service is timed on a device without saved networks, the gateway on both
    /\ role = "service" => profiles = {}
    /\ pendingAct = "none"
    /\ devState = "DISCONNECTED"
    /\ active = "none"
    /\ InitManager
    /\ InitPlain

NextTimed == Core \/ Resume \/ Backend \/ Tick

SpecTimed == InitTimed /\ [][NextTimed]_vars

\* initialize() alone, as the gateway runs it, over every marker file, every
\* auto-connect setting and every set of profile timestamps
InitStartup ==
    /\ timed = FALSE
    /\ InitSide
    /\ role = "gateway"
    /\ InitBackend
    /\ InitManager
    /\ \/ /\ marker \in Markers
          /\ timestamp = [s \in Ssids |-> ProfileTimestamp(s)]
          /\ tzFold = FALSE
          /\ autoconnect \in SUBSET {s \in profiles : s # APSsid}
       \/ /\ marker = NoMarker
          /\ timestamp \in [Ssids -> 0 .. MaxStamp]
          /\ \A s \in Ssids \ profiles : timestamp[s] = 0
          /\ tzFold \in BOOLEAN
          /\ autoconnect = {s \in profiles : s # APSsid}
    /\ autoBefore = autoconnect
    /\ marker0 = marker
    /\ passLog = NoPassLog
    /\ callHist = NoCalls
    /\ tornDown = FALSE

Startup ==
    \/ \E t \in Tasks : Poll(t)
    \/ \E t \in Tasks : Wake(t)
    \/ TimerFire
    \/ TimerDone
    \/ \E t \in Tasks : ConnBegin(t)
    \/ \E t \in Tasks : WaitTimeout(t)
    \/ \E t \in Tasks : ConnCheck(t)
    \/ \E t \in Tasks : ConnFallback(t)
    \/ \E t \in Tasks : ConnAfterAp(t)
    \/ \E t \in Tasks : ApBegin(t)
    \/ Cleanup
    \/ CleanupAfterConnect
    \/ PassBegin
    \/ PassTry
    \/ PassAfterAttempt
    \/ WaitForExpired
    \/ InitDone

\* Untimed: a connection timeout or the wait_for of the reconnector runs out
ElapseTimeouts ==
    /\ ~timed
    /\ \/ \E t \in Tasks : ElapseWait(t)
       \/ ElapseWaitFor
    /\ UNCHANGED <<histVars, extVars, timed, sideVars, role, hasWifi, backendVars, marker, current_state,
                   last_status, registered, pc, delay, pollObs, notifyVars, conn, apc, passTodo,
                   passCaller, reconnect_attempt>>

NextStartup == Startup \/ Resume \/ Backend \/ ElapseTimeouts

SpecStartup == InitStartup /\ [][NextStartup]_vars

\* The initialized manager of the gateway and a caller of its AP operations
InitStoresAp ==
    {k \cup a : k \in {{}, {"HomeWifi"}, {"HomeWifi", "CafeHotspot"}}, a \in {{}, {APSsid}}}

InitAp ==
    /\ timed = FALSE
    /\ InitSide
    /\ role = "gateway"
    /\ hasWifi = TRUE
    /\ profiles \in InitStoresAp
    /\ pendingAct = "none"
    /\ \/ devState = "DISCONNECTED" /\ active = "none"
       \/ devState = "ACTIVATED" /\ active \in profiles
    /\ marker = NoMarker
    /\ current_state = ObservedState
    /\ last_status = StatusOf(ObservedState)
    /\ registered = TRUE
    /\ pc = [t \in Tasks |->
               CASE t = "main" -> "g_done"
                 [] t = "monitor" -> "mon_sleep"
                 [] t = "timer" -> IF ObservedState = "DISCONNECTED" THEN "t_sleep" ELSE "idle"
                 [] OTHER -> "api_idle"]
    /\ delay = [t \in Tasks |-> 0]
    /\ pollObs = [t \in Tasks |-> "none"]
    /\ pollOld = [t \in Tasks |-> "none"]
    /\ pollIdx = [t \in Tasks |-> 0]
    /\ observers = 0
    /\ got = [o \in 1 .. 0 |-> NoNote]
    /\ conn = [t \in Tasks |-> NoConn]
    /\ waitLeft = [t \in Tasks |-> 0]
    /\ wfLeft = 0
    /\ apc = [t \in Tasks |-> NoAp]
    /\ passTodo = <<>>
    /\ passCaller = "init"
    /\ reconnect_attempt = 0
    /\ sinceLast = GapCap
    /\ discTicks = 0
    /\ sawConnected = FALSE
    /\ timestamp = [s \in Ssids |-> ProfileTimestamp(s)]
    /\ tzFold = FALSE
    /\ autoconnect \in SUBSET {s \in profiles : s # APSsid}
    /\ autoBefore = {}
    /\ marker0 = marker
    /\ passLog = NoPassLog
    /\ callHist = NoCalls
    /\ tornDown = FALSE

ApCalls ==
    \/ CallStart
    \/ StartDone
    \/ CallStop
    \/ StopBegin
    \/ StopDone
    \/ EnableBegin
    \/ EnableStartAp
    \/ EnableDone
    \/ CallDisable
    \/ DisableAfterStop

NextAp ==
    \/ ApCalls
    \/ \E t \in Tasks : Poll(t)
    \/ \E t \in Tasks : Wake(t)
    \/ \E t \in Tasks : ApBegin(t)
    \/ TimerFire
    \/ TimerDone
    \/ Resume
    \/ Backend

SpecAp == InitAp /\ [][NextAp]_vars

\* The initialized manager of the gateway with callbacks added by further
\* users of add_state_change_callback, and status requests
InitNotify ==
    /\ InitAp
    /\ profiles = {"HomeWifi"}
    /\ autoconnect = profiles

\* add_state_change_callback: one more callback at the end of the list,
\* added while no poll is inside its loop over the list
AddCallback ==
    /\ pc["main"] = "g_done"
    /\ observers < MaxObservers
    /\ \A t \in Tasks : Suspended(t) /\ pollObs[t] = "none"
    /\ observers' = observers + 1
    /\ got' = [o \in 1 .. observers + 1 |-> IF o <= observers THEN got[o] ELSE NoNote]
    /\ UNCHANGED <<histVars, extVars, timed, sideVars, role, hasWifi, backendVars, marker, current_state,
                   last_status, registered, pc, delay, pollObs, pollOld, pollIdx, conn,
                   waitLeft, wfLeft, apc, passTodo, passCaller, loopVars>>

\* A request calls get_status (GET /api/v1/network/status)
ApiGetStatus ==
    /\ role = "gateway"
    /\ pc["main"] = "g_done"
    /\ pc["api"] = "api_idle"
    /\ callHist.cur.op = "none"
    /\ OthersSuspended("api")
    /\ pc' = [pc EXCEPT !["api"] = "g_poll"]
    /\ UNCHANGED <<histVars, extVars, timed, sideVars, role, hasWifi, backendVars, marker, current_state,
                   last_status, registered, delay, pollObs, notifyVars, conn, waitLeft, wfLeft,
                   apc, passTodo, passCaller, loopVars>>

NextNotify ==
    \/ AddCallback
    \/ ApiGetStatus
    \/ ScanBegin
    \/ ScanCollect
    \/ ScanDone
    \/ \E t \in Tasks : Poll(t)
    \/ \E t \in Tasks : Wake(t)
    \/ \E t \in Tasks : ApBegin(t)
    \/ TimerFire
    \/ TimerDone
    \/ Resume
    \/ Backend

SpecNotify == InitNotify /\ [][NextNotify]_vars

\* A host without a wireless device: the process from its start, then every
\* operation of the manager
InitNoWifi ==
    /\ Init
    /\ ~hasWifi

NextNoWifi ==
    \/ \E t \in Tasks : Poll(t)
    \/ \E t \in Tasks : Wake(t)
    \/ TimerFire
    \/ TimerDone
    \/ \E t \in Tasks : ConnBegin(t)
    \/ \E t \in Tasks : ApBegin(t)
    \/ Cleanup
    \/ CleanupAfterConnect
    \/ PassBegin
    \/ PassTry
    \/ PassAfterAttempt
    \/ InitDone
    \/ MainInitialCheck
    \/ MainAfterInitialAp
    \/ MainLoopCheck
    \/ MainLoopAfterPass
    \/ Api
    \/ ApiGetStatus
    \/ ApCalls
    \/ ScanBegin
    \/ ScanDone
    \/ Elapse

SpecNoWifi == InitNoWifi /\ [][NextNoWifi]_vars

\* The known-network database (config/network_db.py) for one ssid

\* What neither the database nor the timer handle assigns
restOfManager == <<backendVars, histVars, extVars, timed, role, hasWifi, marker, last_status,
                   registered, pc, delay, pollObs, notifyVars, conn, waitLeft, wfLeft, apc,
                   passTodo, passCaller, loopVars>>

\* `(await self.connection.execute(SELECT id ...)).fetchone()[0]`: fetchone
\* of an aiosqlite cursor is a coroutine function, so the subscript is applied
\* to a coroutine object and raises TypeError
ExistingNetworkId == "TypeError"

\* add_network: INSERT OR REPLACE with both counters 0 and last_connected now
\* (the number of the call, in the model)
AddedRow(now) ==
    [present |-> TRUE, failed_attempts |-> 0, connect_count |-> 0, last_connected |-> now]

\* The UPDATE of record_connection on a row
UpdatedRow(row, success, now) ==
    IF success
    THEN [row EXCEPT !.connect_count = @ + 1, !.last_connected = now, !.failed_attempts = 0]
    ELSE [row EXCEPT !.failed_attempts = @ + 1]

\* add_network for an ssid that has no row yet
AddNetwork ==
    /\ dbLog.calls < MaxAttempts
    /\ ~networks.present
    /\ networks' = AddedRow(dbLog.calls + 1)
    /\ dbLog' = [calls |-> dbLog.calls + 1, streak |-> 0, success_at |-> 0]
    /\ UNCHANGED <<restOfManager, current_state, fallback_timer, timerTasks, pendingDel>>

\* record_connection: a missing row is added and updated; for an existing
\* row the lookup of its id raises, the except branch logs, nothing is written
RecordConnection(success) ==
    /\ dbLog.calls < MaxAttempts
    /\ LET now == dbLog.calls + 1 IN
       /\ networks' = IF ~networks.present
                        THEN UpdatedRow(AddedRow(now), success, now)
                        ELSE IF ExistingNetworkId = "TypeError"
                        THEN networks
                        ELSE UpdatedRow(networks, success, now)
       /\ dbLog' = [calls |-> now,
                    streak |-> IF success THEN 0 ELSE dbLog.streak + 1,
                    success_at |-> IF success THEN now ELSE dbLog.success_at]
    /\ UNCHANGED <<restOfManager, current_state, fallback_timer, timerTasks, pendingDel>>

\* remove_network: DELETE FROM networks WHERE ssid = ?
RemoveNetwork ==
    /\ networks.present
    /\ networks' = NoRow
    /\ dbLog' = [dbLog EXCEPT !.streak = 0, !.success_at = 0]
    /\ UNCHANGED <<restOfManager, current_state, fallback_timer, timerTasks, pendingDel>>

NextDb ==
    \/ AddNetwork
    \/ \E success \in BOOLEAN : RecordConnection(success)
    \/ RemoveNetwork

SpecDb == InitNotify /\ [][NextDb]_vars

\* The fallback timer handle and the tasks it has referred to

\* A task that is not referred to any more and has finished is forgotten
Collected(tasks, handle) ==
    [i \in {j \in DOMAIN tasks : tasks[j] # "done" \/ handle = j} |-> tasks[i]]

\* _cancel_fallback_timer on (tasks, handle): a task that is not done has its
\* cancellation requested (CancelledError is thrown into it at its next
\* step); no task, or a finished one: nothing
CancelledTasks(tasks, handle) ==
    IF handle # 0 /\ tasks[handle] # "done"
    THEN [tasks EXCEPT ![handle] = CASE @ = "sleeping" -> "sleeping_cancelled"
                                     [] @ = "started" -> "started_cancelled"
                                     [] OTHER -> @]
    ELSE tasks

\* A _start_fallback_timer that creates the new task without cancelling the
\* pending one (what StartFallbackTimer must differ from)
StartWithoutCancel ==
    /\ \E i \in 1 .. MaxTimerTasks \ DOMAIN Collected(timerTasks, 0) :
         /\ \A j \in 1 .. i - 1 : j \in DOMAIN Collected(timerTasks, 0)
         /\ timerTasks' = [j \in DOMAIN Collected(timerTasks, 0) \cup {i} |->
                              IF j = i THEN "sleeping" ELSE timerTasks[j]]
         /\ fallback_timer' = i
    /\ UNCHANGED <<restOfManager, current_state, networks, dbLog, pendingDel>>

\* _start_fallback_timer: cancel, then create the task and keep it in the handle
StartFallbackTimer ==
    /\ LET tasks == Collected(CancelledTasks(timerTasks, fallback_timer), 0) IN
       \E i \in 1 .. MaxTimerTasks \ DOMAIN tasks :
         /\ \A j \in 1 .. i - 1 : j \in DOMAIN tasks
         /\ timerTasks' = [j \in DOMAIN tasks \cup {i} |->
                              IF j = i THEN "sleeping" ELSE tasks[j]]
         /\ fallback_timer' = i
    /\ UNCHANGED <<restOfManager, current_state, networks, dbLog, pendingDel>>

\* _cancel_fallback_timer
CancelFallbackTimer ==
    /\ timerTasks' = CancelledTasks(timerTasks, fallback_timer)
    /\ fallback_timer' = IF fallback_timer # 0 /\ timerTasks[fallback_timer] # "done"
                         THEN 0 ELSE fallback_timer
    /\ UNCHANGED <<restOfManager, current_state, networks, dbLog, pendingDel>>

\* A poll assigns the state it derived (the timer handling of the poll is
\* StartFallbackTimer or CancelFallbackTimer)
StateAssigned(st) ==
    /\ current_state' = st
    /\ UNCHANGED <<restOfManager, sideVars>>

\* _fallback_to_ap after its sleep: start_access_point if the state is
\* DISCONNECTED, else the task ends; a cancelled task ends with CancelledError
FallbackTaskWakes(i) ==
    /\ i \in DOMAIN timerTasks
    /\ timerTasks[i] \in {"sleeping", "sleeping_cancelled"}
    /\ timerTasks' = Collected([timerTasks EXCEPT ![i] =
                          IF timerTasks[i] = "sleeping" /\ current_state = "DISCONNECTED"
                          THEN "started" ELSE "done"], fallback_timer)
    /\ UNCHANGED <<restOfManager, current_state, networks, dbLog, fallback_timer, pendingDel>>

\* start_access_point returns in the task, or CancelledError ends it at an await
FallbackTaskEnds(i) ==
    /\ i \in DOMAIN timerTasks
    /\ timerTasks[i] \in {"started", "started_cancelled"}
    /\ timerTasks' = Collected([timerTasks EXCEPT ![i] = "done"], fallback_timer)
    /\ UNCHANGED <<restOfManager, current_state, networks, dbLog, fallback_timer, pendingDel>>

NextTimers ==
    \/ StartFallbackTimer
    \/ CancelFallbackTimer
    \/ \E st \in {"DISCONNECTED", "CONNECTING", "CONNECTED", "AP_MODE"} : StateAssigned(st)
    \/ \E i \in 1 .. MaxTimerTasks : FallbackTaskWakes(i)
    \/ \E i \in 1 .. MaxTimerTasks : FallbackTaskEnds(i)

SpecTimers == InitNotify /\ [][NextTimers]_vars

\* The network service with one known network, under the scheduling of the
\* event loop: a task that is ready again and again is run (the ready queue
\* is first-in first-out), and time passes.  The backend is under no
\* obligation.
InitLive ==
    /\ Init
    /\ role = "service"
    /\ hasWifi
    /\ profiles = {"HomeWifi"}
    /\ active = "none"

NextLive == Core \/ Backend \/ Elapse

SpecLive ==
    /\ InitLive
    /\ [][NextLive]_vars
    /\ \A t \in Tasks : SF_vars(Core /\ pc'[t] # pc[t])
    /\ SF_vars(Elapse)

\* The manager on a host whose backend calls can raise
InitErrors ==
    /\ Init
    /\ hasWifi
    /\ marker = NoMarker
    /\ profiles = {"HomeWifi"}
    /\ active = "none"

NextErrors ==
    \/ \E t \in Tasks : ConnRaise(t)
    \/ \E t \in Tasks : ApRaise(t)
    \/ StopRaise
    \/ StopFailed
    \/ \E s \in Ssids : ForgetNetwork(s) /\ callHist'.cur.result # "true"
    \/ ForgetDone
    \/ ApCalls
    \/ \E t \in Tasks : Poll(t)
    \/ \E t \in Tasks : Wake(t)
    \/ TimerFire
    \/ TimerDone
    \/ \E t \in Tasks : ConnBegin(t)
    \/ \E t \in Tasks : WaitTimeout(t)
    \/ \E t \in Tasks : ConnCheck(t)
    \/ \E t \in Tasks : ConnFallback(t)
    \/ \E t \in Tasks : ConnAfterAp(t)
    \/ \E t \in Tasks : ApBegin(t)
    \/ Cleanup
    \/ PassBegin
    \/ PassTry
    \/ PassAfterAttempt
    \/ WaitForExpired
    \/ InitDone
    \/ MainInitialCheck
    \/ MainAfterInitialAp
    \/ MainLoopCheck
    \/ MainLoopAfterPass
    \/ Resume
    \/ Backend
    \/ Elapse

SpecErrors == InitErrors /\ [][NextErrors]_vars

\* The gateway's manager with forget_network calls and the backend's
\* deletions, from startup on
InitForget == InitErrors /\ role = "gateway"

NextForget ==
    \/ \E s \in Ssids : ForgetNetwork(s)
    \/ ForgetDone
    \/ BackendDeletes
    \/ \E t \in Tasks : Poll(t)
    \/ \E t \in Tasks : Wake(t)
    \/ TimerFire
    \/ TimerDone
    \/ \E t \in Tasks : ConnBegin(t)
    \/ \E t \in Tasks : WaitTimeout(t)
    \/ \E t \in Tasks : ConnCheck(t)
    \/ \E t \in Tasks : ConnFallback(t)
    \/ \E t \in Tasks : ConnAfterAp(t)
    \/ \E t \in Tasks : ApBegin(t)
    \/ Cleanup
    \/ PassBegin
    \/ PassTry
    \/ PassAfterAttempt
    \/ WaitForExpired
    \/ InitDone
    \/ Resume
    \/ Backend
    \/ Elapse

SpecForget == InitForget /\ [][NextForget]_vars

\* shutdown(): the fallback task is cancelled if it has not finished (while
\* it sleeps, or inside start_access_point at the await it is suspended in)
\* and the client object is dropped.  The monitor task is not cancelled.
Shutdown ==
    /\ CallerReady
    /\ callHist' = [cur |-> NoCall, last |-> [BeginCall("shutdown").cur EXCEPT !.result = "true"]]
    /\ pc' = TimerPc(pc, "cancel")
    /\ delay' = TimerDelay(delay, "cancel")
    /\ apc' = TimerReset(apc, "cancel", NoAp)
    /\ pollObs' = TimerReset(pollObs, "cancel", "none")
    /\ pollOld' = TimerReset(pollOld, "cancel", "none")
    /\ pollIdx' = TimerReset(pollIdx, "cancel", 0)
    /\ got' = NotesAfterCancel(got, "timer")
    /\ sawConnected' = SawAfter("cancel", "none")
    /\ UNCHANGED <<discTicks, timestamp, tzFold, autoconnect, marker0, autoBefore, tornDown,
                   passLog, observers, timed, sideVars, role, hasWifi, backendVars, marker,
                   current_state, last_status, registered, conn, waitLeft, wfLeft, passTodo,
                   passCaller, loopVars>>

\* The initialized manager of the gateway, its background tasks and a
\* caller that shuts it down
NextShutdown ==
    \/ Shutdown
    \/ \E t \in Tasks : Poll(t)
    \/ \E t \in Tasks : Wake(t)
    \/ \E t \in Tasks : ApBegin(t)
    \/ TimerFire
    \/ TimerDone
    \/ Resume
    \/ Backend

SpecShutdown == InitNotify /\ [][NextShutdown]_vars

\* The process from its start on a host without a known network, with
\* polls that can raise and AP starts that can raise or fail
InitFaults ==
    /\ Init
    /\ hasWifi
    /\ marker = NoMarker
    /\ KnownNetworks = {}

NextFaults ==
    \/ \E t \in Tasks : PollRaises(t)
    \/ \E t \in Tasks : ApRaise(t)
    \/ \E t \in Tasks : ApActivateExisting(t)
    \/ \E t \in Tasks : Poll(t)
    \/ \E t \in Tasks : Wake(t)
    \/ \E t \in Tasks : ApBegin(t)
    \/ TimerFire
    \/ TimerDone
    \/ Cleanup
    \/ PassBegin
    \/ InitDone
    \/ MainInitialCheck
    \/ MainAfterInitialAp
    \/ MainLoopCheck
    \/ MainLoopAfterPass
    \/ AddCallback
    \/ Resume
    \/ Backend
    \/ Elapse

SpecFaults == InitFaults /\ [][NextFaults]_vars

----------------------------------------------------------------------------
\* Properties

\* A fallback task exists and has not finished (sleeping or starting the AP)
TimerTaskLive == pc["timer"] # "idle"

NoPollSuspended == \A t \in Tasks : pollObs[t] = "none"

\* Tasks inside connect_to_network or start_access_point
Operating == {t \in Tasks : InConnect(t) \/ InApStart(t)}

\* C1: fallback liveness.  With a wireless device, once the observed state
\* is DISCONNECTED and stays so, the fallback timer invokes
\* start_access_point about fallback_timeout later: the state is never seen
\* DISCONNECTED, unchanged and without the timer having fired, for longer
\* than fallback_timeout plus the tolerance.
C1_FallbackFiresInTime ==
    (hasWifi /\ current_state = "DISCONNECTED")
        => discTicks <= Ticks(FallbackTimeout) + Ticks(FireTolerance)

\* C2: every NetworkStatus a poll produces has ap_active = TRUE exactly
\* when its state is AP_MODE, with or without a wireless device.
C2_ApActiveIffApMode ==
    last_status # NoStatus
        => (last_status.ap_active <=> last_status.state = "AP_MODE")

C2_Witness ==
    /\ last_status.state = "AP_MODE"
    /\ last_status.ap_active
    /\ APSsid \in profiles

\* C3: serialization.  At most one task is inside connect_to_network or
\* start_access_point at any instant.
C3_Serialized == Cardinality(Operating) <= 1

\* C4: after the first poll, and outside a poll suspended in its callbacks,
\* a fallback task is pending if and only if current_state is DISCONNECTED.
C4_TimerIffDisconnected ==
    (current_state # "UNKNOWN" /\ NoPollSuspended)
        => (TimerTaskLive <=> current_state = "DISCONNECTED")

\* C5: a fallback timer that was armed before a poll observed CONNECTED
\* never invokes start_access_point.
C5_NoStaleActivation ==
    ~(sawConnected /\ pc["timer"] \in ApPcs)

\* In the service process, whose callback does not suspend, no stale
\* activation happens
StaleActivationNeedsSuspendingCallback == role = "service" => C5_NoStaleActivation

\* connect_to_network has just returned in task t
Returned(t) == pc[t] = "c_ret"

C7_TrueMeansRequestedNetwork ==
    \A t \in Tasks : (Returned(t) /\ conn[t].result = "true") =>
        /\ last_status.state = "CONNECTED"
        /\ last_status.ssid = conn[t].ssid

\* C8: an attempt of the startup reconnector or of the marker
\* reconciliation that ends in FAILED or in the timeout invokes no
\* start_access_point.
C8_ReconnectorStartsNoAp ==
    \A t \in Tasks :
        (conn[t].caller \in {"pass", "cleanup"} /\ conn[t].waitEnd \in {"FAILED", "timeout"})
            => ~InApStart(t)

\* C9 as stated: after an interactive connect_to_network has seen the
\* backend fail, it returns false and a fallback task is pending.
C9_TimerPendingAfterFailure ==
    \A t \in Tasks :
        (Returned(t) /\ conn[t].caller = "api" /\ conn[t].waitEnd = "FAILED")
            => (conn[t].result = "false" /\ TimerTaskLive)

\* C9, amended: an interactive connect_to_network that has seen the backend
\* fail returns false, and it returns from its own call of
\* start_access_point (made after the grace sleep); a fallback task need
\* not be pending after the call.
C9_FailureStartsApAndReturnsFalse ==
    [][\A t \in Tasks :
         (conn[t].caller = "api" /\ conn[t].waitEnd = "FAILED" /\ ~Returned(t) /\ Returned(t)')
            => /\ conn'[t].result = "false"
               /\ pc[t] = "a_ret"
               /\ apc[t].caller = "connect"
               /\ apc[t].result \in {"true", "false"}]_vars

C9_Witness ==
    /\ Returned("api")
    /\ conn["api"].waitEnd = "FAILED"
    /\ conn["api"].result = "false"
    /\ ~TimerTaskLive

\* C10: at startup no start_access_point is invoked before the fallback
\* timer fires: neither by a failed attempt of the startup reconnector nor
\* by the initial state check of the service main loop.
C10_NoApBeforeTimerFires ==
    \A t \in Tasks : pc[t] = "a_begin" =>
        /\ ~(apc[t].caller = "initial" /\ TimerPending)
        /\ ~(apc[t].caller = "connect" /\ conn[t].caller = "pass" /\ passCaller # "loop")


----------------------------------------------------------------------------
\* StartupReconnector: order and number of the attempts of a pass

\* The networks the running pass has attempted so far, in order
Tried == passLog.tried

\* C11: the reconnector attempts the known networks most recently used
\* first (descending connection timestamp), one at a time, and a pass that
\* has seen an attempt succeed has returned without a further attempt.
C11_AttemptsMostRecentFirst ==
    /\ \A i, j \in 1 .. Len(Tried) :
          i < j => timestamp[Tried[i]] >= timestamp[Tried[j]]
    /\ passLog.end = "success" =>
          /\ pc["main"] = PassReturnPc
          /\ conn["main"] = NoConn
          /\ passTodo = <<>>


\* Supporting C11: on a host whose local clock was never set back the
\* attempts are in descending order of the timestamps
MostRecentFirstWithoutFold ==
    ~tzFold =>
        \A i, j \in 1 .. Len(Tried) :
            i < j => timestamp[Tried[i]] >= timestamp[Tried[j]]

\* How often the running pass has attempted network s
TimesTried(s) == Cardinality({i \in 1 .. Len(Tried) : Tried[i] = s})

\* The pass has ended by starting the fallback timer itself
PassStartedTimer == passLog.end \in {"exhausted", "error"}

\* The pass is inside its loop over the known networks
PassInLoop == passLog.end = "none" /\ passLog.known # {}

\* A pass that starts the fallback timer has attempted every known network
\* exactly once
EveryKnownTriedOnce ==
    PassStartedTimer => \A s \in passLog.known : TimesTried(s) = 1

\* No fallback timer is pending while the pass is still attempting networks
NoTimerDuringAttempts == PassInLoop => ~TimerPending

\* C12: when no known network can be reached, the reconnector attempts each
\* known network exactly once, with or without a last_used timestamp, before
\* it starts the fallback timer, and the timer starts only after all attempts
\* have failed.
C12_AllTriedBeforeTimer ==
    /\ EveryKnownTriedOnce
    /\ NoTimerDuringAttempts


\* C13: a reconnector that runs while the state is CONNECTED returns at
\* once: no connect attempt, no fallback timer armed or cancelled, no AP
\* start, and the backend (the existing connection) is left as it is.
C13_ConnectedPassDoesNothing ==
    [][(pc["main"] = "p_begin" /\ current_state = "CONNECTED"
          /\ pc'["main"] # "p_begin")
       => /\ pc'["main"] = PassReturnPc
          /\ pc'["timer"] = pc["timer"]
          /\ passLog'.tried = <<>>
          /\ UNCHANGED <<backendVars, conn, apc, delay, passTodo, current_state>>]_vars

\* A pass has found the state CONNECTED and has returned
C13_Witness ==
    /\ passLog.end = "skip"
    /\ pc["main"] = "i_done"
    /\ devState = "ACTIVATED"
    /\ active \in Ssids


----------------------------------------------------------------------------
\* AP operations called directly

\* The second of two start_access_point calls in a row, both made while the
\* AP was active, has returned
SecondStartReturned ==
    /\ pc["api"] = "a_ret"
    /\ callHist.cur.op = "start"
    /\ callHist.cur.apBefore
    /\ callHist.last.op = "start"
    /\ callHist.last.apBefore

\* C14: start_access_point called twice in a row while the AP is active
\* returns true both times, and after the second call the AP profile of the
\* configured ssid is there (once: profiles are told apart by their ssid).
C14_StartTwiceIdempotent ==
    SecondStartReturned =>
        /\ callHist.last.result = "true"
        /\ apc["api"].result = "true"
        /\ APSsid \in profiles

\* C15: start_access_point called while the AP is active returns true
\* without touching the backend: the device is not disconnected, the AP
\* profile is neither deleted nor created again.
C15_StartLeavesActiveApAlone ==
    [][(pc["api"] = "a_begin" /\ apc["api"].caller = "direct" /\ ApActive
          /\ pc'["api"] # "a_begin")
       => /\ apc'["api"].result = "true"
          /\ ~tornDown'
          /\ UNCHANGED backendVars]_vars


\* A step of a stop_access_point that was called while no AP was active
StopWithoutApStep ==
    /\ callHist.cur.op = "stop"
    /\ ~callHist.cur.apBefore
    /\ pc'["api"] # pc["api"]

\* Supporting C16: such a call changes neither the device nor the profiles
StopWithoutApKeepsBackend ==
    [][StopWithoutApStep => UNCHANGED <<backendVars, autoconnect, marker>>]_vars

\* Supporting C16: such a call neither arms nor cancels the fallback timer
StopWithoutApKeepsTimer ==
    [][StopWithoutApStep => pc'["timer"] = pc["timer"]]_vars

\* C16: stop_access_point called while no AP is active leaves the state
\* unchanged: an active client connection stays active, no profile of a
\* regular network is deactivated or deleted, the marker stays, and the
\* fallback timer is neither armed nor cancelled by the call.
C16_StopWithoutApChangesNothing ==
    [][StopWithoutApStep =>
          /\ UNCHANGED <<backendVars, autoconnect, marker>>
          /\ pc'["timer"] = pc["timer"]]_vars


----------------------------------------------------------------------------
\* Manual AP mode: enable_ap_mode and disable_ap_mode

\* enable_ap_mode is entered while the device is connected to a client network
EnableEntered ==
    /\ callHist.cur.op = "none"
    /\ callHist'.cur.op = "enable"
    /\ callHist'.cur.connBefore # "none"

\* enable_ap_mode, entered while connected, switches auto-connect off
EnableSwitchesOff ==
    /\ callHist.cur.op = "enable"
    /\ callHist.cur.connBefore # "none"
    /\ pc["api"] = "e_disable"
    /\ pc'["api"] # "e_disable"

\* enable_ap_mode, entered while connected, has created the hotspot
EnableStartsAp ==
    /\ callHist.cur.op = "enable"
    /\ callHist.cur.connBefore # "none"
    /\ pc["api"] = "a_begin"
    /\ apc'["api"].result = "true"

\* disable_ap_mode runs its nmcli block while the AP is active
DisableStopsAp ==
    /\ callHist.cur.op = "disable"
    /\ pc["api"] = "s_begin"
    /\ pc'["api"] # "s_begin"
    /\ ApActive

\* disable_ap_mode returns, the call before it having been an enable_ap_mode
\* that was entered while connected and returned true
DisableReturnsAfterEnable ==
    /\ callHist.cur.op = "disable"
    /\ callHist'.cur.op = "none"
    /\ callHist.last.op = "enable"
    /\ callHist.last.result = "true"
    /\ callHist.last.connBefore # "none"

\* The steps of an enable_ap_mode / disable_ap_mode pair do to network n
\* what C17 says
EnableDisableEffects ==
    /\ EnableEntered =>
          /\ marker'.kind = "valid"
          /\ marker'.previous_ssid = callHist'.cur.connBefore
          /\ active' = "none"
    /\ EnableSwitchesOff => callHist.cur.connBefore \notin autoconnect'
    /\ EnableStartsAp => devState' = "ACTIVATED" /\ active' = APSsid
    /\ DisableStopsAp => active' = "none"
    /\ DisableReturnsAfterEnable =>
          /\ callHist.last.connBefore \in autoconnect'
          /\ pendingAct' = callHist.last.connBefore
          /\ marker' = NoMarker

\* Supporting C17: the sequence holds for a network whose profile name does
\* not contain "hotspot"
EnableDisableOrdinaryNetwork ==
    [][(callHist.cur.connBefore \notin HotspotNamed
          /\ callHist'.cur.connBefore \notin HotspotNamed
          /\ callHist.last.connBefore \notin HotspotNamed)
       => EnableDisableEffects]_vars

\* C17: enable_ap_mode called while connected to N disconnects N, switches
\* N's auto-connect off, records N as previous_ssid in the marker and
\* activates the AP; a following disable_ap_mode stops the AP, switches N's
\* auto-connect on again, requests the activation of N and removes the marker.
C17_EnableThenDisableRestores == [][EnableDisableEffects]_vars


\* Supporting C18: a profile that auto-connected before enable_ap_mode
\* auto-connects after the following disable_ap_mode
AutoconnectOnStaysOn ==
    [][(callHist.cur.op = "disable" /\ callHist'.cur.op = "none"
          /\ callHist.last.op = "enable" /\ callHist.last.result = "true")
       => \A s \in profiles' : s \in autoBefore => s \in autoconnect']_vars

\* C18: after enable_ap_mode followed by disable_ap_mode every known
\* (non-AP) profile has the auto-connect flag it had before enable_ap_mode;
\* a profile whose auto-connect was off is still off.
C18_AutoconnectRoundTrip ==
    [][(callHist.cur.op = "disable" /\ callHist'.cur.op = "none"
          /\ callHist.last.op = "enable" /\ callHist.last.result = "true")
       => \A s \in profiles' :
            ~IsApConnection(s) => (s \in autoconnect' <=> s \in autoBefore)]_vars

----------------------------------------------------------------------------
\* ReconnectionMarker

\* _cleanup_temporary_ap_mode has returned
CleanupHasRun ==
    /\ pc["main"] \notin {"i_cleanup", "i_csleep"}
    /\ conn["main"].caller # "cleanup"

\* C19: a marker exists whenever AP mode is active, however it was entered,
\* and no marker exists once normal client operation has resumed.
C19_MarkerIffApMode ==
    /\ current_state = "AP_MODE" => marker.kind # "absent"
    /\ (current_state = "CONNECTED" /\ CleanupHasRun) => marker.kind = "absent"


CalledForEveryTransition == \A o \in 1 .. observers : ~got[o].missed
StatusOfTheTransition == \A o \in 1 .. observers : got[o].fresh

\* C21: on every observed transition every registered callback is invoked
\* exactly once with (old_state, new_state, status): no poll that observed
\* a transition ends without having called every callback, and the status
\* a callback is handed is the one of the transition's new state.
C21_EveryCallbackOncePerTransition == CalledForEveryTransition /\ StatusOfTheTransition

\* C29: each subscriber receives the notifications in the order in which
\* the transitions were observed, and consecutive notifications chain: the
\* old_state a callback is called with is the new_state of its previous call.
C29_NotificationsChain == \A o \in 1 .. observers : got[o].chained

----------------------------------------------------------------------------
\* The host without a wireless device

\* get_status has just returned: the poll it awaits has run from its call
\* site back to the caller
GetStatusReturns == pc["api"] = "g_poll" /\ pc'["api"] = "api_idle"

\* Every status the manager holds after a poll is the wired-only one
WiredOnlyAfterEveryPoll ==
    last_status # NoStatus =>
        /\ last_status.state = "DISCONNECTED"
        /\ last_status.interface = "wired-only"
        /\ last_status.signal_strength = "0"
        /\ ~last_status.ap_active

\* scan_networks returns the empty list, connect_to_network returns False
EmptyScanFailedConnect ==
    /\ pc["api"] = "sc_ret" => callHist.cur.result = "[]"
    /\ \A t \in Tasks : pc[t] = "c_ret" => conn[t].result = "false"

\* C22: with no wireless device, after any sequence of operations get_status
\* returns state DISCONNECTED with interface "wired-only", signal strength 0
\* and ap_active false, scan_networks returns the empty list without
\* raising, and connect_to_network returns False.
C22_WiredOnlyDegradation ==
    /\ [](~hasWifi => WiredOnlyAfterEveryPoll /\ EmptyScanFailedConnect)
    /\ [][~hasWifi /\ GetStatusReturns =>
            /\ last_status'.state = "DISCONNECTED"
            /\ last_status'.interface = "wired-only"
            /\ last_status'.signal_strength = "0"
            /\ ~last_status'.ap_active]_vars

\* A scan on the host without a device has returned the empty list after
\* AP calls and a status request
C22_Witness ==
    /\ ~hasWifi
    /\ pc["api"] = "sc_ret"
    /\ callHist.cur.result = "[]"
    /\ callHist.last.op \in {"start", "enable"}
    /\ last_status.interface = "wired-only"

\* A step inside start_access_point or enable_ap_mode of the caller
InStartOrEnable ==
    \/ callHist.cur.op \in {"start", "enable"}
    \/ callHist'.cur.op \in {"start", "enable"}

\* The step leaves the backend as it was: no profile deleted or created, no
\* auto-connect flag changed, nothing activated or deactivated
NoBackendCommand == backendVars' = backendVars /\ autoconnect' = autoconnect

\* start_access_point and enable_ap_mode return False
ApCallsReturnFalse ==
    callHist.last.op \in {"start", "enable"} => callHist.last.result = "false"

\* The fallback task enters start_access_point
TimerAttemptsAp == pc["timer"] # "a_begin" /\ pc'["timer"] = "a_begin"

\* No step of start_access_point or enable_ap_mode issues a backend command
NoCommandInApCalls == [][~hasWifi /\ InStartOrEnable => NoBackendCommand]_vars

\* The fallback task never enters start_access_point
TimerNeverAttemptsAp == [][~hasWifi => ~TimerAttemptsAp]_vars

\* C23: with no wireless device, start_access_point and enable_ap_mode issue
\* no backend command and return False, and the fallback timer armed at
\* startup never causes an AP activation attempt.
C23_ApCallsAreNoOps ==
    /\ [](~hasWifi => ApCallsReturnFalse)
    /\ NoCommandInApCalls
    /\ TimerNeverAttemptsAp

----------------------------------------------------------------------------
\* Backend errors

\* No operation has handed an exception to its caller
NothingRaised ==
    /\ \A t \in Tasks : conn[t].result # "raised" /\ apc[t].result # "raised"
    /\ callHist.cur.result # "raised"
    /\ callHist.last.result # "raised"

\* A connect_to_network whose body raised returns False
FailedConnectIsFalse ==
    \A t \in Tasks : pc[t] = "c_ret" /\ conn[t].waitEnd = "error" => conn[t].result = "false"

\* C24: a failed connect or AP start is reported as the boolean False and
\* never as an exception: connect_to_network, start_access_point,
\* stop_access_point, enable_ap_mode, disable_ap_mode and forget_network
\* catch every backend error at their top level, so none reaches the poll
\* loop, the timer task or the service main loop.
C24_ErrorsBecomeFalse == NothingRaised /\ FailedConnectIsFalse

\* The startup reconnector's connect raised and, after the fallback start
\* of the AP raised too, has returned False
C24_Witness ==
    /\ pc["main"] = "c_ret"
    /\ conn["main"].waitEnd = "error"
    /\ conn["main"].result = "false"

----------------------------------------------------------------------------
\* The known-network database

\* C25: on an existing network record a successful attempt sets the failure
\* count to 0 and updates last_used, a failed attempt adds exactly 1 and
\* leaves last_used alone, so the failure count always equals the number of
\* consecutive failures since the last success.
C25_FailureCountIsStreak ==
    networks.present =>
        /\ networks.failed_attempts = dbLog.streak
        /\ networks.last_connected >= dbLog.success_at

----------------------------------------------------------------------------
\* The fallback timer handle

\* The tasks that can still call start_access_point
PendingTasks == {i \in DOMAIN timerTasks : timerTasks[i] = "sleeping"}

\* C28: there is never more than one pending fallback task: starting the
\* timer while one is pending cancels it first, so at most one
\* timer-initiated start_access_point can result from the tasks pending at
\* any instant, and that task is the one the handle refers to.
C28_AtMostOnePendingTimer ==
    /\ Cardinality(PendingTasks) <= 1
    /\ \A i \in PendingTasks : fallback_timer = i

\* The timer was started while a task was pending: the old task has its
\* cancellation requested, the new one sleeps
C28_Witness ==
    \E i, j \in DOMAIN timerTasks :
        /\ timerTasks[i] = "sleeping_cancelled"
        /\ timerTasks[j] = "sleeping"
        /\ fallback_timer = j

----------------------------------------------------------------------------
\* The re-check of the fallback task

\* The device is activated with a regular (client) profile
DeviceReconnected == devState = "ACTIVATED" /\ active # "none" /\ ~IsApConnection(active)

\* C27: on firing, the fallback task re-checks the state, so a device that
\* reconnected in the interim is never switched to AP mode: if the device is
\* activated with a regular profile when the timer fires (also when no poll
\* has observed the reconnection yet), start_access_point is not invoked.
C27_NoApWhenReconnected ==
    [][pc["timer"] = "t_sleep" /\ pc'["timer"] = "a_begin" => ~DeviceReconnected]_vars

----------------------------------------------------------------------------
\* State derivation

\* The state the rules of the derivation give, in their order
StateByRules ==
    IF ~hasWifi THEN "DISCONNECTED"
    ELSE IF devState = "ACTIVATED" /\ active # "none"
    THEN IF IsApConnection(active) THEN "AP_MODE" ELSE "CONNECTED"
    ELSE IF devState \in {"PREPARE", "CONFIG", "IP_CONFIG"} THEN "CONNECTING"
    ELSE IF devState = "FAILED" THEN "FAILED"
    ELSE "DISCONNECTED"

\* C30: a poll derives the state by the rules in order: no device gives
\* DISCONNECTED, activated with an AP profile AP_MODE, activated with a
\* regular profile CONNECTED, every preparing or configuring phase of an
\* activation in progress CONNECTING, failed FAILED, anything else
\* DISCONNECTED; so an attempt that proceeds through its phases is never
\* observed as DISCONNECTED.
C30_DerivedStateFollowsRules ==
    (IF ~hasWifi THEN "DISCONNECTED" ELSE ObservedState) = StateByRules

----------------------------------------------------------------------------
\* Return from AP mode

\* C26: the service switches between client mode and AP mode in both
\* directions: when it is in AP mode entered by automatic fallback and a
\* known network is stored (and reachable), it eventually attempts that
\* network again (or is found connected to it) without operator action.
C26_LeavesApModeForKnownNetwork ==
    (current_state = "AP_MODE" /\ "HomeWifi" \in profiles)
        ~> ((\E t \in Tasks : pc[t] = "c_begin") \/ current_state = "CONNECTED")

----------------------------------------------------------------------------
\* C31: a poll whose backend query raises is recovered locally.  The poll
\* returns to its caller, which goes on; current_state and last_status are
\* unchanged, no callback is called, no other task (the fallback task among
\* them) is created, cancelled or moved.  The monitor loop is at its poll or
\* in its sleep at all times, and no start_access_point hands an exception
\* to the fallback task that called it.
RaisedPollChangesNothing ==
    \A t \in Tasks :
        PollRaises(t) =>
            /\ pc'[t] = AfterPoll(pc[t])
            /\ current_state' = current_state
            /\ last_status' = last_status
            /\ got' = got
            /\ \A u \in Tasks \ {t} : pc'[u] = pc[u] /\ delay'[u] = delay[u]

MonitorLoopRuns == pc["monitor"] \in {"mon_sleep", "mon_poll"}

NothingReachesTheTasks == \A t \in Tasks : apc[t].result # "raised"

----------------------------------------------------------------------------
\* C32: a failed creation of the AP profile is retried once.  A call of
\* start_access_point is at a_begin until its nmcli block has run; the block
\* holds one creation command, and a retry would be a second pass through
\* it.  So no call goes from a_begin to its return with the result false in
\* one pass: false is returned only after the second creation.
C32_RetriesOnceBeforeFalse ==
    [][\A t \in Tasks :
          (pc[t] = "a_begin" /\ pc'[t] = "a_ret" /\ hasWifi)
              => apc'[t].result # "false"]_vars

----------------------------------------------------------------------------
\* C33: reconciliation of a leftover marker at startup.  The step that
\* leaves _cleanup_temporary_ap_mode's entry has switched auto-connect on for
\* every known network whenever a marker file existed; it goes on to the
\* reconnection (the settle sleep before connect_to_network) exactly when
\* the marker records a manual activation and a previous ssid.  However the
\* reconnection ends, initialize() goes on with its poll and its
\* reconnection pass and does not fail.
MarkerFoundEnablesAutoconnect ==
    (pc["main"] = "i_cleanup" /\ pc'["main"] # "i_cleanup" /\ marker.kind # "absent")
        => KnownNetworks \subseteq autoconnect'

ReconnectsIffManualWithSsid ==
    (pc["main"] = "i_cleanup" /\ pc'["main"] # "i_cleanup")
        => (pc'["main"] = "i_csleep"
              <=> (marker.manual_activation /\ marker.previous_ssid # "null"))

ReconnectionEndsInPoll ==
    (pc["main"] = "c_ret" /\ conn["main"].caller = "cleanup" /\ pc'["main"] # "c_ret")
        => pc'["main"] = "i_poll"

C33_MarkerReconciliation ==
    /\ [][MarkerFoundEnablesAutoconnect]_vars
    /\ [][ReconnectsIffManualWithSsid]_vars
    /\ [][ReconnectionEndsInPoll]_vars
    /\ [](pc["main"] # "i_failed")

----------------------------------------------------------------------------
\* C34: forget_network.  A call for an ssid without a stored profile returns
\* false and changes neither the profiles nor their settings.  A call that
\* returns true has deleted the network: at its return the ssid is not among
\* the known networks (which is what get_known_networks lists and what a
\* reconnection pass tries).
ForgetReturnedTrue ==
    /\ pc["api"] = "f_ret"
    /\ callHist.cur.op = "forget"
    /\ callHist.cur.result = "true"

ForgetUnknownChangesNothing ==
    \A s \in Ssids :
        (ForgetNetwork(s) /\ s \notin KnownNetworks)
            => /\ callHist'.cur.result = "false"
               /\ UNCHANGED <<backendVars, autoconnect, pendingDel>>

C34_ForgottenNetworkIsGone ==
    /\ [](ForgetReturnedTrue => pendingDel \notin KnownNetworks)
    /\ [][ForgetUnknownChangesNothing]_vars

----------------------------------------------------------------------------
\* C35: the outcome of connect_to_network is the outcome of its own
\* request.  When the wait of a call ends on a target state (the call goes
\* on to return true, or to the grace sleep before start_access_point), the
\* backend has taken up the activation the call requested: the request is
\* no longer pending.  A device that was already activated on the requested
\* network itself is left aside: there the old state and the outcome agree.
AlreadyOnRequested(t) == devState = "ACTIVATED" /\ active = conn[t].ssid

C35_OutcomeFollowsRequest ==
    [][\A t \in Tasks :
          (pc[t] = "c_chk" /\ pc'[t] \in {"c_ret", "c_fsleep"} /\ ~AlreadyOnRequested(t))
              => pendingAct # conn[t].ssid]_vars

----------------------------------------------------------------------------
\* C36: an enable_ap_mode that returns false leaves the system as it was.
\* When start_access_point has returned false inside enable_ap_mode, no
\* marker file exists, and either the device is connected to the network it
\* was connected to when enable_ap_mode was called or every known network
\* auto-connects.
EnableReturnsFalse ==
    /\ pc["api"] = "a_ret"
    /\ apc["api"].caller = "enable"
    /\ apc["api"].result = "false"

C36_FailedEnableRestores ==
    EnableReturnsFalse =>
        /\ marker = NoMarker
        /\ \/ callHist.cur.connBefore # "none" /\ ConnectedSsid = callHist.cur.connBefore
           \/ KnownNetworks \subseteq autoconnect

----------------------------------------------------------------------------
\* C37: after shutdown() has returned there is no fallback task: none that
\* sleeps, none that is inside start_access_point, and none is created
\* later by a poll of the monitor loop.
ShutdownReturned == callHist.last.op = "shutdown"

C37_NoFallbackAfterShutdown == ShutdownReturned => pc["timer"] = "idle"

====
